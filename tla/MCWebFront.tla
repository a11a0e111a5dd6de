----------------------------- MODULE MCWebFront -----------------------------
(* The web front and the HTTP transport on a small instance.  The texts    *)
(* are up to three pieces: good, bad, doubled, unknown and empty pairs, in *)
(* any order.                                                              *)
EXTENDS WebFront

Piece == {<<>>, <<"letter">>,
          <<"name", "=", "letter">>, <<"Name", "=", "lone", "blank">>,
          <<"name", "=", "letter", "=", "letter">>, <<"letter", "=", "control">>,
          <<"version", "=", "blank", "1.0">>, <<"version", "=", "2.0", "1.0">>,
          <<"version", "=", "letter">>}

Join(a, b) == a \o <<";">> \o b

SomeTexts == Piece \cup {Join(a, b) : a, b \in Piece}
                   \cup {Join(a, Join(b, c)) : a, b, c \in Piece}

=============================================================================
