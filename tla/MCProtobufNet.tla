---------------------------- MODULE MCProtobufNet ----------------------------
(* The protobuf-net transport on a small instance.  The AppInfos include a *)
(* plain one, names the text cannot carry, and one without a version.      *)
EXTENDS ProtobufNet

PlainInfo == [name |-> <<"letter", "name">>, version |-> <<"2.0">>]

Infos == {PlainInfo, NoInfo,
          [PlainInfo EXCEPT !.name = <<"blank", "version">>],
          [PlainInfo EXCEPT !.name = <<"lone">>],
          [PlainInfo EXCEPT !.version = <<>>]}

=============================================================================
