------------------------- MODULE ConduitRouterProofs -------------------------
(***************************************************************************)
(* Proofs of the safety properties of ConduitRouter, for every number of   *)
(* servers, routes and disposers and every tree of conduits.               *)
(***************************************************************************)
EXTENDS ConduitRouter, TLAPS

(* What was built stands on what was built before.                         *)
BuiltInv ==
  /\ Len(table) + Len(front) <= MaxConduits
  /\ \A r \in DOMAIN base : base[r] < r
  /\ \A f \in DOMAIN front : front[f].target \in Conduit \cup {Nothing}

AtFront  == {"testFront", "setFront", "shutDown", "chain"}
AtRouter == {"testRouter", "setRouter"}
AtServer == {"testServer", "setServer", "disposeApp"}
Walking  == AtServer \cup {"walk"}

(* Where disposer d is, and what it is about to do there.                  *)
PlaceInv(d) ==
  /\ disposer[d].pc = "idle" => disposer[d] = Idle
  /\ disposer[d].pc \in AtFront =>
       disposer[d].front \in DOMAIN front /\ disposer[d].router = 0
  /\ disposer[d].pc \in AtRouter => disposer[d].router \in DOMAIN table
  /\ disposer[d].pc \in AtServer => disposer[d].server \in Servers
  /\ disposer[d].router \in {0} \cup DOMAIN table
  /\ disposer[d].pc \in AtFront \cup AtRouter \/ disposer[d].router = 0 =>
       disposer[d].todo = {}
  /\ disposer[d].router # 0 => disposer[d].todo \subseteq Chained(table[disposer[d].router])

(* A front that was disposed of owns conduit c.                            *)
FrontOwns(c) ==
  \E f \in DOMAIN front :
    frontDisposed[f] /\ front[f].chainDispose /\ front[f].target = c

(* Router r chains its disposal to server s.                               *)
RouterOwns(r, s) ==
  \E k \in DOMAIN table[r] : table[r][k] = [server |-> s, chainDispose |-> TRUE]

(* By what right disposer d disposes of the router or the server it is at. *)
RightInv(d) ==
  /\ disposer[d].pc \in {"shutDown", "chain"} => frontDisposed[disposer[d].front]
  /\ disposer[d].pc \in AtRouter =>
       disposer[d].front = 0 \/ FrontOwns(RouterAt(disposer[d].router))
  /\ disposer[d].pc \in AtServer =>
       \/ disposer[d].front = 0 /\ disposer[d].router = 0
       \/ disposer[d].router # 0 /\ RouterOwns(disposer[d].router, disposer[d].server)
       \/ FrontOwns(ServerAt(disposer[d].server))
  /\ disposer[d].router # 0 /\ disposer[d].pc \in Walking \cup {"finished"} =>
       routerDisposed[disposer[d].router]

(* How far disposer d is with the routes of a router.                      *)
WalkInv(d) ==
  disposer[d].router # 0 /\ disposer[d].pc \in Walking \cup {"finished"} =>
    \A k \in Chained(table[disposer[d].router]) :
      LET s == table[disposer[d].router][k].server
      IN  \/ disposer[d].pc # "finished" /\ k \in disposer[d].todo
          \/ serverDisposed[s]
          \/ disposer[d].pc \in {"testServer", "setServer"} /\ disposer[d].server = s

(* Disposer d disposes of an application once, and not of one that it has  *)
(* still before it.                                                        *)
OnceInv(d) ==
  \A s \in Servers :
    /\ appDisposals[s][d] \in {0, 1}
    /\ appDisposals[s][d] = 1 => serverDisposed[s]
    /\ disposer[d].pc \in {"setServer", "disposeApp"} /\ disposer[d].server = s =>
         appDisposals[s][d] = 0
    /\ disposer[d].pc = "disposeApp" /\ disposer[d].server = s => serverDisposed[s]

(* Disposer d is to see to what front f owns.                              *)
FrontCared(f, d) ==
  \/ disposer[d].pc \in {"shutDown", "chain"} /\ disposer[d].front = f
  \/ disposer[d].pc \in {"testFront", "setFront"} /\ front[f].target = FrontAt(disposer[d].front)
  \/ disposer[d].pc \in AtRouter /\ front[f].target = RouterAt(disposer[d].router)
  \/ disposer[d].pc \in {"testServer", "setServer"}
     /\ front[f].target = ServerAt(disposer[d].server)

(* Disposer d is to see to the servers of router r.                        *)
RouterCared(r, d) == disposer[d].router = r /\ disposer[d].pc \in Walking

ServersDisposed(r) == \A k \in Chained(table[r]) : serverDisposed[table[r][k].server]

(* Disposer d has disposed, or is to dispose, of the application of s.     *)
AppCared(s, d) ==
  \/ appDisposals[s][d] > 0
  \/ disposer[d].pc = "disposeApp" /\ disposer[d].server = s

(* What is disposed of has passed its disposal on, or some disposer is     *)
(* about to, or one has failed.                                            *)
Failure == \E d \in Disposers : disposer[d].pc = "failed"

PassedOn ==
  /\ \A f \in DOMAIN front : frontDisposed[f] /\ front[f].chainDispose =>
       Disposed(front[f].target) \/ \E d \in Disposers : FrontCared(f, d)
  /\ \A r \in DOMAIN table : routerDisposed[r] =>
       ServersDisposed(r) \/ \E d \in Disposers : RouterCared(r, d)
  /\ \A s \in Owning : serverDisposed[s] => \E d \in Disposers : AppCared(s, d)

IInv ==
  /\ TypeOK /\ BuiltInv
  /\ \A d \in Disposers : PlaceInv(d) /\ RightInv(d) /\ WalkInv(d) /\ OnceInv(d)
  /\ DerivedKeepsRoutes /\ OwnershipRespected
  /\ Failure \/ PassedOn

-----------------------------------------------------------------------------

(* What Append does to a sequence.                                         *)
LEMMA AppendFacts ==
  ASSUME NEW S, NEW s \in Seq(S), NEW e \in S
  PROVE  /\ Append(s, e) \in Seq(S)
         /\ Len(Append(s, e)) = Len(s) + 1
         /\ DOMAIN Append(s, e) = DOMAIN s \cup {Len(s) + 1}
         /\ Append(s, e)[Len(s) + 1] = e
         /\ \A i \in DOMAIN s : Append(s, e)[i] = s[i]
OBVIOUS

(* What a sequence of elements of S holds.                                 *)
LEMMA ElementFacts ==
  ASSUME NEW S, NEW s \in Seq(S), NEW i \in DOMAIN s
  PROVE  s[i] \in S
OBVIOUS

(* AppendFacts for a new flag that is not set: Boolean values need steps   *)
(* of their own.                                                           *)
LEMMA AppendFlag ==
  ASSUME NEW s \in Seq(BOOLEAN)
  PROVE  /\ Append(s, FALSE) \in Seq(BOOLEAN)
         /\ Len(Append(s, FALSE)) = Len(s) + 1
         /\ ~Append(s, FALSE)[Len(s) + 1]
         /\ \A i \in DOMAIN s : Append(s, FALSE)[i] = s[i]
<1>1. Append(s, FALSE) \in Seq(BOOLEAN)
  OBVIOUS
<1>2. Len(Append(s, FALSE)) = Len(s) + 1
  OBVIOUS
<1>3. Append(s, FALSE)[Len(s) + 1] = FALSE
  OBVIOUS
<1>4. ASSUME NEW i \in DOMAIN s
      PROVE  Append(s, FALSE)[i] = s[i]
  <2>1. PICK e \in BOOLEAN : e = FALSE
    OBVIOUS
  <2>2. Append(s, e)[i] = s[i]
    BY AppendFacts
  <2>3. QED
    BY <2>1, <2>2, Zenon
<1>5. QED
  BY <1>1, <1>2, <1>3, <1>4, Zenon

DisposerRec == [pc : Places, front : 0 .. MaxConduits, router : 0 .. MaxConduits,
                todo : SUBSET Routes, server : Servers \cup {Null}]

(* What a move does to the disposers: one of them changes its place.       *)
LEMMA MoveFacts ==
  ASSUME disposer \in [Disposers -> DisposerRec], NEW d \in Disposers,
         NEW p \in Places, Move(d, p)
  PROVE  /\ disposer' \in [Disposers -> DisposerRec]
         /\ \A e \in Disposers \ {d} : disposer'[e] = disposer[e]
         /\ disposer'[d].pc = p
         /\ disposer'[d].front = disposer[d].front
         /\ disposer'[d].router = disposer[d].router
         /\ disposer'[d].todo = disposer[d].todo
         /\ disposer'[d].server = disposer[d].server
BY DEF Move, DisposerRec

(* What entering a conduit does to them.                                   *)
LEMMA EnterFacts ==
  ASSUME disposer \in [Disposers -> DisposerRec], NEW d \in Disposers,
         NEW c \in ConduitRefs, Enter(d, c)
  PROVE  /\ disposer' \in [Disposers -> DisposerRec]
         /\ \A e \in Disposers \ {d} : disposer'[e] = disposer[e]
         /\ disposer'[d].pc = IF c.front # 0 THEN "testFront"
                              ELSE IF c.router # 0 THEN "testRouter"
                              ELSE IF c.server # Null THEN "testServer"
                              ELSE "finished"
         /\ disposer'[d].front = IF c.front # 0 THEN c.front ELSE disposer[d].front
         /\ disposer'[d].router = c.router
         /\ disposer'[d].todo = disposer[d].todo
         /\ disposer'[d].server = c.server
<1> DEFINE place == IF c.front # 0 THEN "testFront"
                    ELSE IF c.router # 0 THEN "testRouter"
                    ELSE IF c.server # Null THEN "testServer"
                    ELSE "finished"
           to    == IF c.front # 0 THEN c.front ELSE disposer[d].front
<1>1. place \in Places
  BY DEF Places
<1>2. to \in 0 .. MaxConduits /\ c.router \in 0 .. MaxConduits /\ c.server \in Servers \cup {Null}
  BY DEF DisposerRec, ConduitRefs
<1>3. disposer' = [disposer EXCEPT ![d].pc = place, ![d].front = to,
                                   ![d].router = c.router, ![d].server = c.server]
  BY DEF Enter
<1> HIDE DEF place, to
<1>4. /\ disposer' \in [Disposers -> DisposerRec]
      /\ \A e \in Disposers \ {d} : disposer'[e] = disposer[e]
      /\ disposer'[d].pc = place /\ disposer'[d].front = to
      /\ disposer'[d].router = c.router /\ disposer'[d].server = c.server
      /\ disposer'[d].todo = disposer[d].todo
  <2> DEFINE rec == [disposer[d] EXCEPT !.pc = place, !.front = to,
                                        !.router = c.router, !.server = c.server]
  <2>1. /\ rec \in DisposerRec
        /\ rec.pc = place /\ rec.front = to /\ rec.router = c.router
        /\ rec.server = c.server /\ rec.todo = disposer[d].todo
    BY <1>1, <1>2 DEF DisposerRec
  <2>2. disposer' = [disposer EXCEPT ![d] = rec]
    BY <1>3
  <2> HIDE DEF rec
  <2>3. /\ disposer' \in [Disposers -> DisposerRec] /\ disposer'[d] = rec
        /\ \A e \in Disposers \ {d} : disposer'[e] = disposer[e]
    BY <2>1, <2>2
  <2> QED
    BY <2>1, <2>3
<1>5. QED
  BY <1>4 DEF place, to

(* What there is to dispose of.                                            *)
LEMMA ConduitFacts ==
  ASSUME BuiltOK, BuiltInv, NEW c \in Conduit \cup {Nothing}
  PROVE  /\ c \in ConduitRefs
         /\ c.front # 0 => c.front \in DOMAIN front /\ c = FrontAt(c.front)
         /\ c.router # 0 => c.router \in DOMAIN table /\ c = RouterAt(c.router) /\ c.front = 0
         /\ c.server # Null => c.server \in Servers /\ c = ServerAt(c.server)
                               /\ c.front = 0 /\ c.router = 0
<1>1. CASE c = Nothing
  BY <1>1, RouterAssumption DEF Nothing, ConduitRefs
<1>2. ASSUME NEW f \in DOMAIN front, c = FrontAt(f)
      PROVE  f \in 1 .. MaxConduits
  BY RouterAssumption DEF BuiltOK, BuiltInv
<1>3. ASSUME NEW r \in DOMAIN table, c = RouterAt(r)
      PROVE  r \in 1 .. MaxConduits
  BY RouterAssumption DEF BuiltOK, BuiltInv
<1>4. CASE \E f \in DOMAIN front : c = FrontAt(f)
  BY <1>2, <1>4, RouterAssumption DEF FrontAt, Nothing, ConduitRefs
<1>5. CASE \E r \in DOMAIN table : c = RouterAt(r)
  BY <1>3, <1>5, RouterAssumption DEF RouterAt, Nothing, ConduitRefs
<1>6. CASE \E s \in Servers : c = ServerAt(s)
  BY <1>6, RouterAssumption DEF ServerAt, Nothing, ConduitRefs
<1>7. QED
  BY <1>1, <1>4, <1>5, <1>6 DEF Conduit

-----------------------------------------------------------------------------

(* In the beginning there is nothing.                                      *)
LEMMA InitInvariant == Init => IInv
<1> SUFFICES ASSUME Init PROVE IInv
  OBVIOUS
<1> USE DEF Init
<1>1. TypeOK
  <2>1. BuiltOK
    BY RouterAssumption DEF BuiltOK
  <2>2. FlagsOK
    BY DEF FlagsOK
  <2>3. DisposersOK
    BY RouterAssumption DEF DisposersOK, Idle, Places
  <2>4. QED
    BY <2>1, <2>2, <2>3 DEF TypeOK
<1>2. BuiltInv
  BY RouterAssumption DEF BuiltInv
<1>3. ASSUME NEW d \in Disposers
      PROVE  PlaceInv(d) /\ RightInv(d) /\ WalkInv(d) /\ OnceInv(d)
  BY <1>3 DEF PlaceInv, RightInv, WalkInv, OnceInv, Idle, AtFront, AtRouter, AtServer, Walking
<1>4. DerivedKeepsRoutes /\ OwnershipRespected /\ PassedOn
  BY RouterAssumption DEF DerivedKeepsRoutes, OwnershipRespected, PassedOn, Idle
<1>5. QED
  BY <1>1, <1>2, <1>3, <1>4 DEF IInv

-----------------------------------------------------------------------------
(* The steps of disposal.                                                  *)

(* A disposal builds nothing and resets no flag.                           *)
Monotone ==
  /\ UNCHANGED built
  /\ \A f \in DOMAIN front : frontDisposed[f] => frontDisposed'[f]
  /\ \A r \in DOMAIN table : routerDisposed[r] => routerDisposed'[r]
  /\ \A s \in Servers : serverDisposed[s] => serverDisposed'[s]

(* What a step of disposer d leaves to be seen to.                         *)
StepOf(d) ==
  /\ FlagsOK' /\ Monotone
  /\ disposer' \in [Disposers -> DisposerRec]
  /\ \A e \in Disposers \ {d} : disposer'[e] = disposer[e]
  /\ \A s \in Servers, e \in Disposers \ {d} : appDisposals'[s][e] = appDisposals[s][e]

(* What holds of the other disposers, a step of disposer d keeps: it sets  *)
(* flags, and resets none.                                                 *)
LEMMA OthersKept ==
  ASSUME IInv, NEW d \in Disposers, StepOf(d), NEW e \in Disposers \ {d}
  PROVE  PlaceInv(e)' /\ RightInv(e)' /\ WalkInv(e)' /\ OnceInv(e)'
<1>1. /\ disposer'[e] = disposer[e] /\ table' = table /\ front' = front
      /\ PlaceInv(e) /\ RightInv(e) /\ WalkInv(e) /\ OnceInv(e)
  BY DEF StepOf, Monotone, built, IInv
<1>2. PlaceInv(e)'
  BY <1>1 DEF PlaceInv, Chained
<1>3. RightInv(e)'
  <2>1. FrontOwns(RouterAt(disposer[e].router)) => FrontOwns(RouterAt(disposer[e].router))'
    BY <1>1 DEF FrontOwns, StepOf, Monotone, RouterAt
  <2>2. FrontOwns(ServerAt(disposer[e].server)) => FrontOwns(ServerAt(disposer[e].server))'
    BY <1>1 DEF FrontOwns, StepOf, Monotone, ServerAt
  <2>3. RouterOwns(disposer[e].router, disposer[e].server)
          => RouterOwns(disposer[e].router, disposer[e].server)'
    BY <1>1 DEF RouterOwns
  <2>4. disposer[e].router # 0 /\ routerDisposed[disposer[e].router] =>
          routerDisposed'[disposer[e].router]
    BY <1>1 DEF PlaceInv, StepOf, Monotone
  <2>5. disposer[e].pc \in {"shutDown", "chain"} => frontDisposed'[disposer[e].front]
    BY <1>1 DEF PlaceInv, RightInv, AtFront, StepOf, Monotone
  <2>6. QED
    BY <1>1, <2>1, <2>2, <2>3, <2>4, <2>5 DEF RightInv
<1>4. WalkInv(e)'
  <2> SUFFICES ASSUME disposer[e].router # 0, disposer[e].pc \in Walking \cup {"finished"},
                      NEW k \in Chained(table[disposer[e].router])
               PROVE  LET s == table[disposer[e].router][k].server
                      IN  \/ disposer[e].pc # "finished" /\ k \in disposer[e].todo
                          \/ serverDisposed'[s]
                          \/ disposer[e].pc \in {"testServer", "setServer"} /\ disposer[e].server = s
    BY <1>1 DEF WalkInv, Chained
  <2>1. disposer[e].router \in DOMAIN table
    BY <1>1 DEF PlaceInv
  <2>2. table[disposer[e].router][k].server \in Servers
    <3> DEFINE t == table[disposer[e].router]
    <3>1. t \in Tables
      BY <2>1 DEF IInv, TypeOK, BuiltOK
    <3> HIDE DEF t
    <3>2. k \in DOMAIN t
      BY Zenon DEF t, Chained
    <3>3. t[k].server \in Servers
      BY <3>1, <3>2 DEF Tables, RouteRec
    <3> QED
      BY <3>3 DEF t
  <2>3. LET s == table[disposer[e].router][k].server
        IN  \/ disposer[e].pc # "finished" /\ k \in disposer[e].todo
            \/ serverDisposed[s]
            \/ disposer[e].pc \in {"testServer", "setServer"} /\ disposer[e].server = s
    BY <1>1 DEF WalkInv
  <2>4. \A s \in Servers : serverDisposed[s] => serverDisposed'[s]
    BY DEF StepOf, Monotone
  <2>5. QED
    BY <2>2, <2>3, <2>4
<1>5. OnceInv(e)'
  BY <1>1 DEF OnceInv, StepOf, Monotone
<1>6. QED
  BY <1>2, <1>3, <1>4, <1>5

(* What was built is as it was.                                            *)
LEMMA BuiltKept ==
  ASSUME IInv, UNCHANGED built
  PROVE  BuiltOK' /\ BuiltInv' /\ DerivedKeepsRoutes'
BY DEF built, IInv, TypeOK, BuiltOK, BuiltInv, DerivedKeepsRoutes, Conduit

(* The right to dispose of a server, or of a router.                       *)
ServerDue(s) ==
  \/ \E d \in Disposers :
       disposer[d].front = 0 /\ disposer[d].router = 0 /\ disposer[d].server = s
  \/ \E r \in DOMAIN table : routerDisposed[r] /\ RouterOwns(r, s)
  \/ FrontOwns(ServerAt(s))

RouterDue(r) ==
  \/ \E d \in Disposers : disposer[d].front = 0 /\ disposer[d].router = r
  \/ FrontOwns(RouterAt(r))

(* OwnershipRespected in terms of these rights.                            *)
LEMMA OwnershipIsDue ==
  OwnershipRespected <=>
    /\ \A s \in Servers : serverDisposed[s] => ServerDue(s)
    /\ \A r \in DOMAIN table : routerDisposed[r] => RouterDue(r)
BY DEF OwnershipRespected, ServerDue, RouterDue, RouterOwns, FrontOwns

(* A disposer that was told to dispose of a router or a server holds to it.*)
HoldsTo(d) ==
  disposer[d].pc # "idle" /\ disposer[d].front = 0 =>
    /\ disposer'[d].front = 0
    /\ disposer'[d].router = disposer[d].router
    /\ disposer[d].router = 0 => disposer'[d].server = disposer[d].server

(* Such a right is not lost.                                               *)
LEMMA RightsKept ==
  ASSUME IInv, NEW d \in Disposers, StepOf(d), HoldsTo(d)
  PROVE  /\ \A s \in Servers : ServerDue(s) => ServerDue(s)'
         /\ \A r \in DOMAIN table : RouterDue(r) => RouterDue(r)'
<1>1. table' = table /\ front' = front
  BY DEF StepOf, Monotone, built
<1>2. \A e \in Disposers : disposer[e].pc = "idle" =>
        disposer[e].server = Null /\ disposer[e].router = 0
  BY DEF IInv, PlaceInv, Idle
<1>3. \A c : (\E f \in DOMAIN front : frontDisposed[f] /\ front[f].chainDispose
                                      /\ front[f].target = c)
              => \E f \in DOMAIN front : frontDisposed'[f] /\ front[f].chainDispose
                                         /\ front[f].target = c
  BY DEF StepOf, Monotone
<1>4. ASSUME NEW s \in Servers, ServerDue(s)
      PROVE  ServerDue(s)'
  <2>1. CASE \E e \in Disposers :
               disposer[e].front = 0 /\ disposer[e].router = 0 /\ disposer[e].server = s
    <3>1. PICK e \in Disposers :
            disposer[e].front = 0 /\ disposer[e].router = 0 /\ disposer[e].server = s
      BY <2>1
    <3>2. disposer[e].pc # "idle"
      BY <1>2, <3>1, RouterAssumption
    <3>3. disposer'[e].front = 0 /\ disposer'[e].router = 0 /\ disposer'[e].server = s
      BY <3>1, <3>2 DEF StepOf, HoldsTo
    <3>4. QED
      BY <3>3 DEF ServerDue
  <2>2. CASE \E r \in DOMAIN table : routerDisposed[r] /\ RouterOwns(r, s)
    BY <1>1, <2>2 DEF ServerDue, RouterOwns, StepOf, Monotone
  <2>3. CASE FrontOwns(ServerAt(s))
    BY <1>1, <1>3, <2>3 DEF ServerDue, FrontOwns, ServerAt
  <2>4. QED
    BY <1>4, <2>1, <2>2, <2>3 DEF ServerDue
<1>5. ASSUME NEW r \in DOMAIN table, RouterDue(r)
      PROVE  RouterDue(r)'
  <2>1. CASE \E e \in Disposers : disposer[e].front = 0 /\ disposer[e].router = r
    <3>1. PICK e \in Disposers : disposer[e].front = 0 /\ disposer[e].router = r
      BY <2>1
    <3>2. disposer[e].pc # "idle"
      BY <1>2, <3>1 DEF IInv, TypeOK, BuiltOK
    <3>3. disposer'[e].front = 0 /\ disposer'[e].router = r
      BY <3>1, <3>2 DEF StepOf, HoldsTo
    <3>4. QED
      BY <3>3 DEF RouterDue
  <2>2. CASE FrontOwns(RouterAt(r))
    BY <1>1, <1>3, <2>2 DEF RouterDue, FrontOwns, RouterAt
  <2>3. QED
    BY <1>5, <2>1, <2>2 DEF RouterDue
<1>6. QED
  BY <1>4, <1>5

(* Entering a conduit that was built, as a thread's own or through a front *)
(* that owns it.                                                           *)
LEMMA EnterKeeps ==
  ASSUME IInv, NEW d \in Disposers, NEW c \in Conduit \cup {Nothing}, Enter(d, c),
         UNCHANGED <<built, flags>>,
         \/ disposer[d] = Idle
         \/ disposer[d].pc \in AtFront /\ (c = Nothing \/ FrontOwns(c))
  PROVE  /\ StepOf(d) /\ HoldsTo(d)
         /\ PlaceInv(d)' /\ RightInv(d)' /\ WalkInv(d)' /\ OnceInv(d)'
<1>1. /\ BuiltOK /\ BuiltInv /\ FlagsOK /\ disposer \in [Disposers -> DisposerRec]
      /\ PlaceInv(d)
  BY DEF IInv, TypeOK, DisposersOK, DisposerRec
<1>2. /\ table' = table /\ front' = front /\ frontDisposed' = frontDisposed
      /\ UNCHANGED <<frontDisposed, shutDown, routerDisposed, serverDisposed, appDisposals>>
  BY DEF built, flags, frontFlags
<1>3. /\ c \in ConduitRefs
      /\ c.front # 0 => c.front \in DOMAIN front /\ c = FrontAt(c.front)
      /\ c.router # 0 => c.router \in DOMAIN table /\ c = RouterAt(c.router) /\ c.front = 0
      /\ c.server # Null => c.server \in Servers /\ c = ServerAt(c.server)
                            /\ c.front = 0 /\ c.router = 0
  BY <1>1, ConduitFacts
<1>4. /\ disposer' \in [Disposers -> DisposerRec]
      /\ \A e \in Disposers \ {d} : disposer'[e] = disposer[e]
      /\ disposer'[d].pc = IF c.front # 0 THEN "testFront"
                           ELSE IF c.router # 0 THEN "testRouter"
                           ELSE IF c.server # Null THEN "testServer"
                           ELSE "finished"
      /\ disposer'[d].front = IF c.front # 0 THEN c.front ELSE disposer[d].front
      /\ disposer'[d].router = c.router
      /\ disposer'[d].todo = disposer[d].todo
      /\ disposer'[d].server = c.server
  BY <1>1, <1>3, EnterFacts
<1>5. StepOf(d)
  BY <1>1, <1>2, <1>4 DEF StepOf, FlagsOK, Monotone
<1>6. /\ disposer[d].todo = {}
      /\ disposer[d].pc = "idle" => disposer[d].front = 0
      /\ disposer[d].pc # "idle" => disposer[d].front # 0 /\ disposer[d].pc \in AtFront
  BY <1>1 DEF PlaceInv, Idle, AtFront, BuiltOK
<1>7. HoldsTo(d)
  BY <1>6 DEF HoldsTo
<1>8. PlaceInv(d)'
  BY <1>2, <1>3, <1>4, <1>6 DEF PlaceInv, AtFront, AtRouter, AtServer, Chained, ConduitRefs, BuiltOK
<1>9. RightInv(d)'
  <2>1. CASE c.router # 0
    <3>1. disposer'[d].pc = "testRouter" /\ disposer'[d].router = c.router
          /\ disposer'[d].front = disposer[d].front
      BY <1>3, <1>4, <2>1
    <3>2. c = RouterAt(c.router) /\ c # Nothing
      BY <1>3, <2>1 DEF Nothing
    <3>3. disposer'[d].front = 0 \/ FrontOwns(c)
      BY <1>6, <3>1, <3>2 DEF Idle
    <3>4. FrontOwns(c) => FrontOwns(RouterAt(disposer[d].router))'
      BY <1>2, <3>1, <3>2 DEF FrontOwns, RouterAt
    <3>5. QED
      BY <3>1, <3>3, <3>4 DEF RightInv, AtRouter, AtServer, Walking
  <2>2. CASE c.router = 0 /\ c.server # Null
    <3>1. disposer'[d].pc = "testServer" /\ disposer'[d].server = c.server
          /\ disposer'[d].front = disposer[d].front /\ disposer'[d].router = 0
      BY <1>3, <1>4, <2>2
    <3>2. c = ServerAt(c.server) /\ c # Nothing
      BY <1>3, <2>2 DEF Nothing
    <3>3. disposer'[d].front = 0 \/ FrontOwns(c)
      BY <1>6, <3>1, <3>2 DEF Idle
    <3>4. FrontOwns(c) => FrontOwns(ServerAt(disposer[d].server))'
      BY <1>2, <3>1, <3>2 DEF FrontOwns, ServerAt
    <3>5. QED
      BY <3>1, <3>3, <3>4 DEF RightInv, AtRouter, AtServer, Walking
  <2>3. CASE c.router = 0 /\ c.server = Null
    BY <1>4, <2>3 DEF RightInv, AtRouter, AtServer, Walking
  <2>4. QED
    BY <2>1, <2>2, <2>3
<1>10. WalkInv(d)'
  BY <1>3, <1>4 DEF WalkInv, Walking, AtServer
<1>11. OnceInv(d)'
  BY <1>2, <1>4 DEF OnceInv, IInv
<1>12. QED
  BY <1>5, <1>7, <1>8, <1>9, <1>10, <1>11

(* A disposer sees to what it is to see to, and to what it sets the flag   *)
(* of.                                                                     *)
Hands(d) ==
  /\ \A f \in DOMAIN front :
       FrontCared(f, d) \/ (frontDisposed'[f] /\ ~frontDisposed[f]) =>
         FrontCared(f, d)' \/ Disposed(front[f].target)' \/ ~front[f].chainDispose
  /\ \A r \in DOMAIN table :
       RouterCared(r, d) \/ (routerDisposed'[r] /\ ~routerDisposed[r]) =>
         RouterCared(r, d)' \/ ServersDisposed(r)'
  /\ \A s \in Owning :
       AppCared(s, d) \/ (serverDisposed'[s] /\ ~serverDisposed[s]) => AppCared(s, d)'

(* It sets a flag by right.                                                *)
ByRight ==
  /\ \A s \in Servers : serverDisposed'[s] => serverDisposed[s] \/ ServerDue(s)
  /\ \A r \in DOMAIN table : routerDisposed'[r] => routerDisposed[r] \/ RouterDue(r)

(* What every step of disposer d does, as far as d and the flags go.       *)
Kept(d) == PlaceInv(d)' /\ RightInv(d)' /\ WalkInv(d)' /\ OnceInv(d)'

Orderly(d) == StepOf(d) /\ HoldsTo(d) /\ ByRight /\ (Failure' \/ Hands(d))

(* A thread that enters a conduit hands on to it, and needs no right to.   *)
LEMMA EntersOrderly ==
  ASSUME IInv, NEW d \in Disposers, NEW c \in Conduit \cup {Nothing}, Enter(d, c),
         UNCHANGED <<built, flags>>, StepOf(d), HoldsTo(d),
         \/ disposer[d] = Idle
         \/ /\ disposer[d].pc = "chain" /\ disposer[d].front \in DOMAIN front
            /\ front[disposer[d].front].chainDispose => c = front[disposer[d].front].target
  PROVE  Orderly(d)
<1>1. /\ table' = table /\ front' = front
      /\ UNCHANGED <<frontDisposed, shutDown, routerDisposed, serverDisposed, appDisposals>>
  BY DEF built, flags, frontFlags
<1>2. BuiltOK /\ BuiltInv /\ disposer \in [Disposers -> DisposerRec]
  BY DEF IInv, TypeOK, DisposersOK, DisposerRec
<1>3. /\ c \in ConduitRefs
      /\ c.front # 0 => c.front \in DOMAIN front /\ c = FrontAt(c.front)
      /\ c.router # 0 => c.router \in DOMAIN table /\ c = RouterAt(c.router) /\ c.front = 0
      /\ c.server # Null => c.server \in Servers /\ c = ServerAt(c.server)
                            /\ c.front = 0 /\ c.router = 0
  BY <1>2, ConduitFacts
<1>4. /\ disposer'[d].pc = IF c.front # 0 THEN "testFront"
                           ELSE IF c.router # 0 THEN "testRouter"
                           ELSE IF c.server # Null THEN "testServer"
                           ELSE "finished"
      /\ disposer'[d].front = IF c.front # 0 THEN c.front ELSE disposer[d].front
      /\ disposer'[d].router = c.router
      /\ disposer'[d].server = c.server
  BY <1>2, <1>3, EnterFacts
<1>5. ByRight
  BY <1>1 DEF ByRight
<1>6. ASSUME NEW f \in DOMAIN front, FrontCared(f, d), front[f].chainDispose
      PROVE  FrontCared(f, d)' \/ Disposed(front[f].target)'
  <2>1. disposer[d].pc = "chain" /\ disposer[d].front = f /\ front[f].target = c
    BY <1>6 DEF FrontCared, Idle, AtRouter
  <2>2. CASE c.front # 0 \/ c.router # 0 \/ c.server # Null
    BY <1>1, <1>3, <1>4, <2>1, <2>2 DEF FrontCared, AtRouter
  <2>3. CASE c.front = 0 /\ c.router = 0 /\ c.server = Null
    BY <1>1, <2>1, <2>3 DEF Disposed
  <2>4. QED
    BY <2>2, <2>3
<1>7. ASSUME NEW r \in DOMAIN table
      PROVE  ~RouterCared(r, d)
  BY DEF RouterCared, Walking, AtServer, Idle
<1>8. ASSUME NEW s \in Owning, AppCared(s, d)
      PROVE  AppCared(s, d)'
  BY <1>1, <1>8 DEF AppCared, Idle
<1>9. QED
  BY <1>1, <1>5, <1>6, <1>7, <1>8 DEF Orderly, Hands

(* StartDisposing: the thread enters a conduit of its own.                 *)
LEMMA StartDisposingStep ==
  ASSUME IInv, NEW d \in Disposers, NEW c \in Conduit, StartDisposing(d, c)
  PROVE  Orderly(d) /\ Kept(d)
<1>1. Enter(d, c) /\ UNCHANGED <<built, flags>> /\ disposer[d] = Idle
  BY DEF StartDisposing, At, IInv, PlaceInv
<1>2. StepOf(d) /\ HoldsTo(d) /\ Kept(d)
  BY <1>1, EnterKeeps DEF Kept
<1>3. QED
  BY <1>1, <1>2, EntersOrderly

(* Chain: the thread enters what its front owns, or is done.               *)
LEMMA ChainStep ==
  ASSUME IInv, NEW d \in Disposers, Chain(d)
  PROVE  Orderly(d) /\ Kept(d)
<1> DEFINE f == front[disposer[d].front]
           c == IF f.chainDispose THEN f.target ELSE Nothing
<1>1. /\ disposer[d].pc = "chain" /\ disposer[d].front \in DOMAIN front
      /\ frontDisposed[disposer[d].front]
  BY DEF Chain, At, IInv, PlaceInv, RightInv, AtFront
<1>2. Enter(d, c) /\ UNCHANGED <<built, flags>>
  BY DEF Chain
<1>3. c \in Conduit \cup {Nothing}
  BY <1>1 DEF IInv, BuiltInv
<1>4. c = Nothing \/ FrontOwns(c)
  BY <1>1 DEF FrontOwns
<1>5. disposer[d].pc \in AtFront
  BY <1>1 DEF AtFront
<1>6. f.chainDispose => c = f.target
  OBVIOUS
<1> HIDE DEF c
<1>7. StepOf(d) /\ HoldsTo(d) /\ Kept(d)
  BY <1>2, <1>3, <1>4, <1>5, EnterKeeps DEF Kept
<1>8. QED
  BY <1>1, <1>2, <1>3, <1>6, <1>7, EntersOrderly

(* A move of disposer d that leaves what was built.                        *)
LEMMA MoveSteps ==
  ASSUME IInv, NEW d \in Disposers, NEW p \in Places, Move(d, p),
         disposer[d].pc # "idle", Monotone, FlagsOK',
         \A s \in Servers, e \in Disposers \ {d} : appDisposals'[s][e] = appDisposals[s][e]
  PROVE  /\ StepOf(d) /\ HoldsTo(d)
         /\ table' = table /\ front' = front
         /\ disposer'[d].pc = p
         /\ disposer'[d].front = disposer[d].front
         /\ disposer'[d].router = disposer[d].router
         /\ disposer'[d].todo = disposer[d].todo
         /\ disposer'[d].server = disposer[d].server
<1>1. disposer \in [Disposers -> DisposerRec]
  BY DEF IInv, TypeOK, DisposersOK, DisposerRec
<1>2. QED
  BY <1>1, MoveFacts DEF StepOf, HoldsTo, Monotone, built

(* A step that sets no flag is by right.                                   *)
LEMMA FlaglessStep ==
  ASSUME UNCHANGED flags
  PROVE  /\ ByRight /\ (IInv /\ UNCHANGED built => Monotone /\ FlagsOK')
         /\ UNCHANGED <<frontDisposed, shutDown, routerDisposed, serverDisposed, appDisposals>>
BY DEF ByRight, flags, frontFlags, built, Monotone, IInv, TypeOK, FlagsOK

(* TestFront: what is skipped is disposed of.                              *)
LEMMA TestFrontStep ==
  ASSUME IInv, NEW d \in Disposers, TestFront(d)
  PROVE  Orderly(d) /\ Kept(d)
<1> DEFINE p == IF frontDisposed[disposer[d].front] THEN "returned" ELSE "setFront"
<1>1. disposer[d].pc = "testFront" /\ UNCHANGED <<built, flags>> /\ Move(d, p)
  BY DEF TestFront, At
<1>2. p \in Places
  BY DEF Places
<1>3. /\ Monotone /\ FlagsOK' /\ ByRight
      /\ UNCHANGED <<frontDisposed, shutDown, routerDisposed, serverDisposed, appDisposals>>
  BY <1>1, FlaglessStep
<1>4. PlaceInv(d) /\ RightInv(d) /\ WalkInv(d) /\ OnceInv(d)
  BY DEF IInv
<1> HIDE DEF p
<1>5. /\ StepOf(d) /\ HoldsTo(d)
      /\ table' = table /\ front' = front
      /\ disposer'[d].pc = p
      /\ disposer'[d].front = disposer[d].front
      /\ disposer'[d].router = disposer[d].router
      /\ disposer'[d].todo = disposer[d].todo
      /\ disposer'[d].server = disposer[d].server
  BY <1>1, <1>2, <1>3, MoveSteps
<1> USE DEF p
<1>6. disposer[d].front \in DOMAIN front /\ disposer[d].front # 0
  BY <1>1, <1>4 DEF PlaceInv, AtFront, IInv, TypeOK, BuiltOK
<1>7. PlaceInv(d)'
  BY <1>1, <1>4, <1>5 DEF PlaceInv, AtFront, AtRouter, AtServer, Chained
<1>8. RightInv(d)' /\ WalkInv(d)' /\ OnceInv(d)'
  BY <1>1, <1>3, <1>4, <1>5 DEF RightInv, WalkInv, OnceInv, AtRouter, AtServer, Walking
<1>9. ASSUME NEW f \in DOMAIN front, FrontCared(f, d)
      PROVE  FrontCared(f, d)' \/ Disposed(front[f].target)'
  <2>1. front[f].target = FrontAt(disposer[d].front)
    BY <1>1, <1>9 DEF FrontCared, AtRouter
  <2>2. CASE frontDisposed[disposer[d].front]
    BY <1>3, <1>5, <1>6, <2>1, <2>2 DEF Disposed, FrontAt, Nothing
  <2>3. CASE ~frontDisposed[disposer[d].front]
    BY <1>5, <2>1, <2>3 DEF FrontCared, FrontAt
  <2>4. QED
    BY <2>2, <2>3
<1>10. Hands(d)
  BY <1>1, <1>3, <1>5, <1>9 DEF Hands, RouterCared, AppCared, Walking, AtServer
<1>11. QED
  BY <1>3, <1>5, <1>7, <1>8, <1>10 DEF Orderly, Kept

(* SetFront: the thread is to see to what the front owns.                  *)
LEMMA SetFrontStep ==
  ASSUME IInv, NEW d \in Disposers, SetFront(d)
  PROVE  Orderly(d) /\ Kept(d)
<1> DEFINE p == IF front[disposer[d].front].hosted THEN "shutDown" ELSE "chain"
           g == disposer[d].front
<1>1. /\ disposer[d].pc = "setFront" /\ UNCHANGED built /\ Move(d, p)
      /\ frontDisposed' = [frontDisposed EXCEPT ![g] = TRUE]
      /\ UNCHANGED <<shutDown, routerDisposed, serverDisposed, appDisposals>>
  BY DEF SetFront, At
<1>2. p \in Places
  BY DEF Places
<1>3. PlaceInv(d) /\ RightInv(d) /\ WalkInv(d) /\ OnceInv(d) /\ FlagsOK /\ BuiltOK
  BY DEF IInv, TypeOK
<1>4. g \in DOMAIN front /\ g # 0
  BY <1>1, <1>3 DEF PlaceInv, AtFront, BuiltOK
<1>5. /\ frontDisposed' \in Seq(BOOLEAN) /\ Len(frontDisposed') = Len(front)
      /\ frontDisposed'[g] /\ \A f \in DOMAIN front : f # g => frontDisposed'[f] = frontDisposed[f]
  BY <1>1, <1>3, <1>4 DEF FlagsOK, BuiltOK
<1>6. Monotone /\ FlagsOK' /\ ByRight
  BY <1>1, <1>3, <1>5 DEF Monotone, FlagsOK, ByRight, built
<1> HIDE DEF p
<1>7. /\ StepOf(d) /\ HoldsTo(d)
      /\ table' = table /\ front' = front
      /\ disposer'[d].pc = p
      /\ disposer'[d].front = g
      /\ disposer'[d].router = disposer[d].router
      /\ disposer'[d].todo = disposer[d].todo
      /\ disposer'[d].server = disposer[d].server
  BY <1>1, <1>2, <1>6, MoveSteps
<1>8. p \in {"shutDown", "chain"}
  BY DEF p
<1>9. PlaceInv(d)'
  BY <1>1, <1>3, <1>7, <1>8 DEF PlaceInv, AtFront, AtRouter, AtServer, Chained
<1>10. RightInv(d)' /\ WalkInv(d)' /\ OnceInv(d)'
  BY <1>1, <1>3, <1>5, <1>7, <1>8 DEF RightInv, WalkInv, OnceInv, AtRouter, AtServer, Walking
<1>11. ASSUME NEW f \in DOMAIN front, FrontCared(f, d)
       PROVE  Disposed(front[f].target)'
  <2>1. front[f].target = FrontAt(g)
    BY <1>1, <1>11 DEF FrontCared, AtRouter
  <2>2. QED
    BY <1>4, <1>5, <1>7, <2>1 DEF Disposed, FrontAt, Nothing
<1>12. ASSUME NEW f \in DOMAIN front, frontDisposed'[f], ~frontDisposed[f]
       PROVE  FrontCared(f, d)'
  BY <1>5, <1>7, <1>8, <1>12 DEF FrontCared
<1>13. Hands(d)
  BY <1>1, <1>11, <1>12 DEF Hands, RouterCared, AppCared, Walking, AtServer
<1>14. QED
  BY <1>6, <1>7, <1>9, <1>10, <1>13 DEF Orderly, Kept

(* ShutDown: the thread goes on to the chain, or has failed.               *)
LEMMA ShutDownStep ==
  ASSUME IInv, NEW d \in Disposers, ShutDown(d)
  PROVE  Orderly(d) /\ Kept(d)
<1> DEFINE p == IF shutDown[disposer[d].front] THEN "failed" ELSE "chain"
<1>1. /\ disposer[d].pc = "shutDown" /\ UNCHANGED built /\ Move(d, p)
      /\ shutDown' = [shutDown EXCEPT ![disposer[d].front] = TRUE]
      /\ UNCHANGED <<frontDisposed, routerDisposed, serverDisposed, appDisposals>>
  BY DEF ShutDown, At
<1>2. p \in Places
  BY DEF Places
<1>3. PlaceInv(d) /\ RightInv(d) /\ WalkInv(d) /\ OnceInv(d) /\ FlagsOK /\ BuiltOK
  BY DEF IInv, TypeOK
<1>4. shutDown' \in Seq(BOOLEAN) /\ Len(shutDown') = Len(front)
  <2>1. disposer[d].front \in DOMAIN front
    BY <1>1, <1>3 DEF PlaceInv, AtFront
  <2>2. QED
    BY <1>1, <1>3, <2>1 DEF FlagsOK, BuiltOK
<1>5. Monotone /\ FlagsOK' /\ ByRight
  BY <1>1, <1>3, <1>4 DEF Monotone, FlagsOK, ByRight, built
<1> HIDE DEF p
<1>6. /\ StepOf(d) /\ HoldsTo(d)
      /\ table' = table /\ front' = front
      /\ disposer'[d].pc = p
      /\ disposer'[d].front = disposer[d].front
      /\ disposer'[d].router = disposer[d].router
      /\ disposer'[d].todo = disposer[d].todo
      /\ disposer'[d].server = disposer[d].server
  BY <1>1, <1>2, <1>5, MoveSteps
<1>7. p \in {"failed", "chain"}
  BY DEF p
<1>8. PlaceInv(d)'
  BY <1>1, <1>3, <1>6, <1>7 DEF PlaceInv, AtFront, AtRouter, AtServer, Chained
<1>9. RightInv(d)' /\ WalkInv(d)' /\ OnceInv(d)'
  BY <1>1, <1>3, <1>6, <1>7 DEF RightInv, WalkInv, OnceInv, AtRouter, AtServer, Walking
<1>10. CASE p = "failed"
  BY <1>5, <1>6, <1>8, <1>9, <1>10 DEF Orderly, Kept, Failure
<1>11. CASE p = "chain"
  <2>1. ASSUME NEW f \in DOMAIN front, FrontCared(f, d)
        PROVE  FrontCared(f, d)'
    BY <1>1, <1>6, <1>11, <2>1 DEF FrontCared, AtRouter
  <2>2. Hands(d)
    BY <1>1, <2>1 DEF Hands, RouterCared, AppCared, Walking, AtServer
  <2>3. QED
    BY <1>5, <1>6, <1>8, <1>9, <2>2 DEF Orderly, Kept
<1>12. QED
  BY <1>7, <1>10, <1>11

(* TestRouter: what is skipped is disposed of.                             *)
LEMMA TestRouterStep ==
  ASSUME IInv, NEW d \in Disposers, TestRouter(d)
  PROVE  Orderly(d) /\ Kept(d)
<1> DEFINE p == IF routerDisposed[disposer[d].router] THEN "returned" ELSE "setRouter"
<1>1. disposer[d].pc = "testRouter" /\ UNCHANGED <<built, flags>> /\ Move(d, p)
  BY DEF TestRouter, At
<1>2. p \in Places
  BY DEF Places
<1>3. /\ Monotone /\ FlagsOK' /\ ByRight
      /\ UNCHANGED <<frontDisposed, shutDown, routerDisposed, serverDisposed, appDisposals>>
  BY <1>1, FlaglessStep
<1>4. PlaceInv(d) /\ RightInv(d) /\ WalkInv(d) /\ OnceInv(d)
  BY DEF IInv
<1> HIDE DEF p
<1>5. /\ StepOf(d) /\ HoldsTo(d)
      /\ table' = table /\ front' = front
      /\ disposer'[d].pc = p
      /\ disposer'[d].front = disposer[d].front
      /\ disposer'[d].router = disposer[d].router
      /\ disposer'[d].todo = disposer[d].todo
      /\ disposer'[d].server = disposer[d].server
  BY <1>1, <1>2, <1>3, MoveSteps
<1> USE DEF p
<1>6. disposer[d].router \in DOMAIN table /\ disposer[d].router # 0
  BY <1>1, <1>4 DEF PlaceInv, AtRouter, IInv, TypeOK, BuiltOK
<1>7. PlaceInv(d)'
  BY <1>1, <1>4, <1>5 DEF PlaceInv, AtFront, AtRouter, AtServer, Chained
<1>8. RightInv(d)'
  BY <1>1, <1>3, <1>4, <1>5 DEF RightInv, AtRouter, AtServer, Walking, FrontOwns, RouterAt
<1>9. WalkInv(d)' /\ OnceInv(d)'
  BY <1>1, <1>3, <1>4, <1>5 DEF WalkInv, OnceInv, AtServer, Walking
<1>10. ASSUME NEW f \in DOMAIN front, FrontCared(f, d)
       PROVE  FrontCared(f, d)' \/ Disposed(front[f].target)'
  <2>1. front[f].target = RouterAt(disposer[d].router)
    BY <1>1, <1>10 DEF FrontCared
  <2>2. CASE routerDisposed[disposer[d].router]
    BY <1>3, <1>5, <1>6, <2>1, <2>2 DEF Disposed, RouterAt, Nothing
  <2>3. CASE ~routerDisposed[disposer[d].router]
    BY <1>5, <2>1, <2>3 DEF FrontCared, RouterAt, AtRouter
  <2>4. QED
    BY <2>2, <2>3
<1>11. Hands(d)
  BY <1>1, <1>3, <1>10 DEF Hands, RouterCared, AppCared, Walking, AtServer
<1>12. QED
  BY <1>3, <1>5, <1>7, <1>8, <1>9, <1>11 DEF Orderly, Kept

(* SetRouter: the thread has the right to the router, and its servers      *)
(* before it.                                                              *)
LEMMA SetRouterStep ==
  ASSUME IInv, NEW d \in Disposers, SetRouter(d)
  PROVE  Orderly(d) /\ Kept(d)
<1> DEFINE r == disposer[d].router
<1>1. /\ disposer[d].pc = "setRouter" /\ UNCHANGED built
      /\ routerDisposed' = [routerDisposed EXCEPT ![r] = TRUE]
      /\ disposer' = [disposer EXCEPT ![d].pc = "walk", ![d].todo = Chained(table[r])]
      /\ UNCHANGED <<frontDisposed, shutDown, serverDisposed, appDisposals>>
  BY DEF SetRouter, At, frontFlags
<1>2. /\ PlaceInv(d) /\ RightInv(d) /\ WalkInv(d) /\ OnceInv(d) /\ FlagsOK /\ BuiltOK
      /\ disposer \in [Disposers -> DisposerRec]
  BY DEF IInv, TypeOK, DisposersOK, DisposerRec
<1>3. r \in DOMAIN table /\ r # 0
  BY <1>1, <1>2 DEF PlaceInv, AtRouter, BuiltOK
<1>4. Chained(table[r]) \subseteq Routes
  BY <1>2, <1>3 DEF BuiltOK, Chained, Tables
<1>5. /\ routerDisposed' \in Seq(BOOLEAN) /\ Len(routerDisposed') = Len(table)
      /\ routerDisposed'[r] /\ \A q \in DOMAIN table : q # r => routerDisposed'[q] = routerDisposed[q]
  BY <1>1, <1>2, <1>3 DEF FlagsOK, BuiltOK
<1>6. /\ disposer' \in [Disposers -> DisposerRec]
      /\ \A e \in Disposers \ {d} : disposer'[e] = disposer[e]
      /\ disposer'[d].pc = "walk" /\ disposer'[d].todo = Chained(table[r])
      /\ disposer'[d].front = disposer[d].front /\ disposer'[d].router = r
      /\ disposer'[d].server = disposer[d].server
  BY <1>1, <1>2, <1>4 DEF DisposerRec, Places
<1>7. table' = table /\ front' = front
  BY <1>1 DEF built
<1>8. StepOf(d)
  <2>1. FlagsOK'
    BY <1>1, <1>2, <1>5, <1>7 DEF FlagsOK
  <2>2. Monotone
    BY <1>1, <1>5 DEF Monotone
  <2>3. QED
    BY <1>1, <1>6, <2>1, <2>2 DEF StepOf
<1>9. HoldsTo(d)
  BY <1>3, <1>6 DEF HoldsTo
<1>10. ByRight
  <2>1. RouterDue(r)
    BY <1>1, <1>2 DEF RightInv, AtRouter, RouterDue
  <2>2. QED
    BY <1>1, <1>5, <2>1 DEF ByRight
<1>11. PlaceInv(d)'
  BY <1>3, <1>6, <1>7 DEF PlaceInv, AtFront, AtRouter, AtServer, Chained
<1>12. RightInv(d)'
  BY <1>5, <1>6 DEF RightInv, AtRouter, AtServer, Walking
<1>13. WalkInv(d)'
  BY <1>6, <1>7 DEF WalkInv, Chained
<1>14. OnceInv(d)'
  BY <1>1, <1>2, <1>6 DEF OnceInv
<1>15. ASSUME NEW f \in DOMAIN front, FrontCared(f, d)
       PROVE  Disposed(front[f].target)'
  <2>1. front[f].target = RouterAt(r)
    BY <1>1, <1>15 DEF FrontCared
  <2>2. QED
    BY <1>3, <1>5, <1>7, <2>1 DEF Disposed, RouterAt, Nothing
<1>16. ASSUME NEW q \in DOMAIN table,
              RouterCared(q, d) \/ (routerDisposed'[q] /\ ~routerDisposed[q])
       PROVE  RouterCared(q, d)'
  <2>1. q = r
    BY <1>5, <1>16 DEF RouterCared
  <2>2. QED
    BY <1>6, <2>1 DEF RouterCared, Walking
<1>17. \A s \in Owning : AppCared(s, d) => AppCared(s, d)'
  BY <1>1, <1>6 DEF AppCared
<1>18. Hands(d)
  BY <1>1, <1>15, <1>16, <1>17 DEF Hands
<1>19. QED
  BY <1>8, <1>9, <1>10, <1>11, <1>12, <1>13, <1>14, <1>18 DEF Orderly, Kept

(* Walk: at the end of the routes every chained server is disposed of;     *)
(* until then the next one is at hand.                                     *)
LEMMA WalkStep ==
  ASSUME IInv, NEW d \in Disposers, Walk(d)
  PROVE  Orderly(d) /\ Kept(d)
<1> DEFINE r == disposer[d].router
<1>1. disposer[d].pc = "walk" /\ UNCHANGED <<built, flags>>
  BY DEF Walk, At
<1>2. /\ PlaceInv(d) /\ RightInv(d) /\ WalkInv(d) /\ OnceInv(d) /\ FlagsOK /\ BuiltOK
      /\ disposer \in [Disposers -> DisposerRec]
  BY DEF IInv, TypeOK, DisposersOK, DisposerRec
<1>3. /\ Monotone /\ FlagsOK' /\ ByRight
      /\ UNCHANGED <<frontDisposed, shutDown, routerDisposed, serverDisposed, appDisposals>>
  BY <1>1, FlaglessStep
<1>4. table' = table /\ front' = front
  BY <1>1 DEF built
<1>5. \A f \in DOMAIN front : ~FrontCared(f, d)
  BY <1>1 DEF FrontCared, AtRouter
<1>6. CASE disposer[d].todo = {}
  <2>1. Move(d, "finished") /\ "finished" \in Places
    BY <1>6, <1>1 DEF Walk, Places
  <2>2. /\ StepOf(d) /\ HoldsTo(d)
        /\ disposer'[d].pc = "finished"
        /\ disposer'[d].front = disposer[d].front
        /\ disposer'[d].router = disposer[d].router
        /\ disposer'[d].todo = disposer[d].todo
        /\ disposer'[d].server = disposer[d].server
    BY <1>1, <1>3, <2>1, MoveSteps
  <2>3. PlaceInv(d)'
    BY <1>1, <1>2, <1>4, <2>2 DEF PlaceInv, AtFront, AtRouter, AtServer, Chained
  <2>4. RightInv(d)'
    BY <1>1, <1>2, <1>3, <2>2 DEF RightInv, AtRouter, AtServer, Walking
  <2>5. ASSUME r # 0, NEW k \in Chained(table[r])
        PROVE  serverDisposed[table[r][k].server]
    BY <1>1, <1>2, <1>6, <2>5 DEF WalkInv, Walking
  <2>6. WalkInv(d)' /\ OnceInv(d)'
    BY <1>1, <1>2, <1>3, <1>4, <2>2, <2>5 DEF WalkInv, OnceInv, Chained
  <2>7. ASSUME NEW q \in DOMAIN table, RouterCared(q, d)
        PROVE  ServersDisposed(q)'
    BY <1>2, <1>3, <1>4, <2>5, <2>7 DEF RouterCared, ServersDisposed, Chained, BuiltOK
  <2>8. Hands(d)
    BY <1>1, <1>3, <1>5, <2>7 DEF Hands, AppCared
  <2>9. QED
    BY <1>3, <2>2, <2>3, <2>4, <2>6, <2>8 DEF Orderly, Kept
<1>7. CASE disposer[d].todo # {}
  <2>1. PICK k \in disposer[d].todo :
          disposer' = [disposer EXCEPT ![d].pc = "testServer", ![d].todo = @ \ {k},
                                       ![d].server = table[r][k].server]
    BY <1>7, <1>1 DEF Walk
  <2>2. r # 0 /\ r \in DOMAIN table /\ k \in Chained(table[r])
    BY <1>1, <1>2, <2>1 DEF PlaceInv
  <2>3. /\ table[r][k] \in RouteRec /\ k \in DOMAIN table[r] /\ table[r][k].chainDispose
        /\ table[r][k].server \in Servers
    BY <1>2, <2>2 DEF BuiltOK, Chained, Tables, RouteRec
  <2>4. /\ disposer' \in [Disposers -> DisposerRec]
        /\ \A e \in Disposers \ {d} : disposer'[e] = disposer[e]
        /\ disposer'[d].pc = "testServer" /\ disposer'[d].todo = disposer[d].todo \ {k}
        /\ disposer'[d].front = disposer[d].front /\ disposer'[d].router = r
        /\ disposer'[d].server = table[r][k].server
    BY <1>2, <2>1, <2>3 DEF DisposerRec, Places
  <2>5. StepOf(d) /\ HoldsTo(d)
    BY <1>3, <2>2, <2>4 DEF StepOf, HoldsTo
  <2>6. PlaceInv(d)'
    BY <1>2, <1>4, <2>2, <2>3, <2>4 DEF PlaceInv, AtFront, AtRouter, AtServer, Chained
  <2>7. RouterOwns(r, table[r][k].server)
    BY <2>3 DEF RouterOwns, RouteRec
  <2>8. RightInv(d)'
    <3>1. RouterOwns(disposer[d].router, disposer[d].server)'
      BY <1>4, <2>4, <2>7 DEF RouterOwns
    <3>2. routerDisposed[r]
      BY <1>1, <1>2, <2>2 DEF RightInv, Walking
    <3>3. QED
      BY <1>3, <2>2, <2>4, <3>1, <3>2 DEF RightInv, AtRouter, AtServer, Walking
  <2>9. ASSUME NEW i \in Chained(table[r])
        PROVE  \/ i \in disposer'[d].todo
               \/ serverDisposed[table[r][i].server]
               \/ disposer'[d].server = table[r][i].server
    BY <1>1, <1>2, <2>2, <2>4 DEF WalkInv, Walking
  <2>10. WalkInv(d)'
    BY <1>3, <1>4, <2>4, <2>9 DEF WalkInv, Chained
  <2>11. OnceInv(d)'
    BY <1>2, <1>3, <2>4 DEF OnceInv
  <2>12. ASSUME NEW q \in DOMAIN table, RouterCared(q, d)
         PROVE  RouterCared(q, d)'
    BY <2>4, <2>12 DEF RouterCared, Walking, AtServer
  <2>13. Hands(d)
    BY <1>1, <1>3, <1>5, <2>12 DEF Hands, AppCared
  <2>14. QED
    BY <1>3, <2>5, <2>6, <2>8, <2>10, <2>11, <2>13 DEF Orderly, Kept
<1>8. QED
  BY <1>6, <1>7

(* A disposer that is at a server has the right to it until it leaves it.  *)
LEMMA RightAtServer ==
  ASSUME NEW d \in Disposers, RightInv(d), disposer[d].pc \in AtServer,
         disposer'[d].pc \in Walking \cup {"failed"},
         disposer'[d].front = disposer[d].front, disposer'[d].router = disposer[d].router,
         disposer'[d].server = disposer[d].server,
         UNCHANGED <<table, front, frontDisposed, routerDisposed>>
  PROVE  RightInv(d)'
<1>1. FrontOwns(ServerAt(disposer[d].server)) => FrontOwns(ServerAt(disposer[d].server))'
  BY DEF FrontOwns, ServerAt
<1>2. RouterOwns(disposer[d].router, disposer[d].server)
        => RouterOwns(disposer[d].router, disposer[d].server)'
  BY DEF RouterOwns
<1>3. disposer'[d].router # 0 => routerDisposed'[disposer'[d].router]
  BY DEF RightInv, Walking
<1>4. QED
  BY <1>1, <1>2, <1>3 DEF RightInv, AtRouter, AtServer, Walking

(* TestServer: what is skipped is disposed of, and its application was not *)
(* disposed of by this thread if it goes on.                               *)
LEMMA TestServerStep ==
  ASSUME IInv, NEW d \in Disposers, TestServer(d)
  PROVE  Orderly(d) /\ Kept(d)
<1> DEFINE p == IF serverDisposed[disposer[d].server] THEN "walk" ELSE "setServer"
           r == disposer[d].router
<1>1. disposer[d].pc = "testServer" /\ UNCHANGED <<built, flags>> /\ Move(d, p)
  BY DEF TestServer, At
<1>2. p \in Places /\ p \in {"walk", "setServer"}
  BY DEF Places
<1>3. /\ Monotone /\ FlagsOK' /\ ByRight
      /\ UNCHANGED <<frontDisposed, shutDown, routerDisposed, serverDisposed, appDisposals>>
  BY <1>1, FlaglessStep
<1>4. PlaceInv(d) /\ RightInv(d) /\ WalkInv(d) /\ OnceInv(d)
  BY DEF IInv
<1> HIDE DEF p
<1>5. /\ StepOf(d) /\ HoldsTo(d)
      /\ table' = table /\ front' = front
      /\ disposer'[d].pc = p
      /\ disposer'[d].front = disposer[d].front
      /\ disposer'[d].router = disposer[d].router
      /\ disposer'[d].todo = disposer[d].todo
      /\ disposer'[d].server = disposer[d].server
  BY <1>1, <1>2, <1>3, MoveSteps
<1>6. disposer[d].server \in Servers
  BY <1>1, <1>4 DEF PlaceInv, AtServer
<1>7. PlaceInv(d)'
  BY <1>1, <1>2, <1>4, <1>5 DEF PlaceInv, AtFront, AtRouter, AtServer, Chained
<1>8. RightInv(d)'
  BY <1>1, <1>2, <1>3, <1>4, <1>5, RightAtServer DEF AtServer, Walking
<1>9. ASSUME r # 0, NEW k \in Chained(table[r])
      PROVE  \/ k \in disposer[d].todo
             \/ serverDisposed[table[r][k].server]
             \/ p = "setServer" /\ disposer[d].server = table[r][k].server
  BY <1>1, <1>4, <1>9 DEF WalkInv, Walking, AtServer, p
<1>10. WalkInv(d)'
  BY <1>2, <1>3, <1>5, <1>9 DEF WalkInv, Chained
<1>11. OnceInv(d)'
  BY <1>3, <1>4, <1>5 DEF OnceInv, p
<1>12. ASSUME NEW f \in DOMAIN front, FrontCared(f, d)
       PROVE  FrontCared(f, d)' \/ Disposed(front[f].target)'
  <2>1. front[f].target = ServerAt(disposer[d].server)
    BY <1>1, <1>12 DEF FrontCared, AtRouter
  <2>2. CASE serverDisposed[disposer[d].server]
    BY <1>3, <1>5, <1>6, <2>1, <2>2, RouterAssumption DEF Disposed, ServerAt, Nothing
  <2>3. CASE ~serverDisposed[disposer[d].server]
    BY <1>5, <2>1, <2>3 DEF FrontCared, ServerAt, p
  <2>4. QED
    BY <2>2, <2>3
<1>13. ASSUME NEW q \in DOMAIN table, RouterCared(q, d)
       PROVE  RouterCared(q, d)'
  BY <1>2, <1>5, <1>13 DEF RouterCared, Walking, AtServer
<1>14. Hands(d)
  BY <1>1, <1>3, <1>12, <1>13 DEF Hands, AppCared
<1>15. QED
  BY <1>3, <1>5, <1>7, <1>8, <1>10, <1>11, <1>14 DEF Orderly, Kept

(* SetServer: the thread has the right to the server, and its application  *)
(* before it if the server owns that.                                      *)
LEMMA SetServerStep ==
  ASSUME IInv, NEW d \in Disposers, SetServer(d)
  PROVE  Orderly(d) /\ Kept(d)
<1> DEFINE p == IF disposer[d].server \in Owning THEN "disposeApp" ELSE "walk"
           s == disposer[d].server
<1>1. /\ disposer[d].pc = "setServer" /\ UNCHANGED built /\ Move(d, p)
      /\ serverDisposed' = [serverDisposed EXCEPT ![s] = TRUE]
      /\ UNCHANGED <<frontDisposed, shutDown, routerDisposed, appDisposals>>
  BY DEF SetServer, At, frontFlags
<1>2. p \in Places /\ p \in {"disposeApp", "walk"} /\ (s \in Owning <=> p = "disposeApp")
  BY DEF Places
<1>3. PlaceInv(d) /\ RightInv(d) /\ WalkInv(d) /\ OnceInv(d) /\ FlagsOK /\ BuiltOK
  BY DEF IInv, TypeOK
<1>4. s \in Servers
  BY <1>1, <1>3 DEF PlaceInv, AtServer
<1>5. /\ serverDisposed' \in [Servers -> BOOLEAN]
      /\ serverDisposed'[s] /\ \A q \in Servers : q # s => serverDisposed'[q] = serverDisposed[q]
  BY <1>1, <1>3, <1>4 DEF FlagsOK
<1>6. /\ Monotone /\ FlagsOK'
      /\ \A q \in Servers, e \in Disposers \ {d} : appDisposals'[q][e] = appDisposals[q][e]
  BY <1>1, <1>3, <1>5 DEF Monotone, FlagsOK, built
<1> HIDE DEF p
<1>7. /\ StepOf(d) /\ HoldsTo(d)
      /\ table' = table /\ front' = front
      /\ disposer'[d].pc = p
      /\ disposer'[d].front = disposer[d].front
      /\ disposer'[d].router = disposer[d].router
      /\ disposer'[d].todo = disposer[d].todo
      /\ disposer'[d].server = s
  BY <1>1, <1>2, <1>6, MoveSteps
<1>8. ByRight
  <2>1. ServerDue(s)
    <3>1. CASE disposer[d].front = 0 /\ disposer[d].router = 0
      BY <3>1 DEF ServerDue
    <3>2. CASE disposer[d].router # 0 /\ RouterOwns(disposer[d].router, s)
      BY <1>1, <1>3, <3>2 DEF RightInv, PlaceInv, Walking, AtServer, ServerDue
    <3>3. CASE FrontOwns(ServerAt(s))
      BY <3>3 DEF ServerDue
    <3>4. QED
      BY <1>1, <1>3, <3>1, <3>2, <3>3 DEF RightInv, AtServer
  <2>2. QED
    BY <1>1, <1>5, <2>1 DEF ByRight
<1>9. PlaceInv(d)'
  BY <1>1, <1>2, <1>3, <1>7 DEF PlaceInv, AtFront, AtRouter, AtServer, Chained
<1>10. RightInv(d)'
  BY <1>1, <1>2, <1>3, <1>7, RightAtServer DEF AtServer, Walking
<1>11. ASSUME disposer[d].router # 0, NEW k \in Chained(table[disposer[d].router])
       PROVE  \/ k \in disposer[d].todo
              \/ serverDisposed'[table[disposer[d].router][k].server]
  <2>1. table[disposer[d].router][k].server \in Servers
    BY <1>3, <1>11 DEF PlaceInv, BuiltOK, Chained, Tables, RouteRec
  <2>2. QED
    BY <1>1, <1>3, <1>5, <1>11, <2>1 DEF WalkInv, Walking, AtServer
<1>12. WalkInv(d)'
  BY <1>2, <1>7, <1>11 DEF WalkInv, Chained
<1>13. OnceInv(d)'
  BY <1>1, <1>3, <1>5, <1>7 DEF OnceInv
<1>14. ASSUME NEW f \in DOMAIN front, FrontCared(f, d)
       PROVE  Disposed(front[f].target)'
  <2>1. front[f].target = ServerAt(s)
    BY <1>1, <1>14 DEF FrontCared, AtRouter
  <2>2. QED
    BY <1>4, <1>5, <1>7, <2>1, RouterAssumption DEF Disposed, ServerAt, Nothing
<1>15. ASSUME NEW q \in DOMAIN table, RouterCared(q, d)
       PROVE  RouterCared(q, d)'
  BY <1>2, <1>7, <1>15 DEF RouterCared, Walking, AtServer
<1>16. ASSUME NEW q \in Owning, AppCared(q, d) \/ (serverDisposed'[q] /\ ~serverDisposed[q])
       PROVE  AppCared(q, d)'
  <2>1. CASE AppCared(q, d)
    BY <1>1, <2>1 DEF AppCared
  <2>2. CASE serverDisposed'[q] /\ ~serverDisposed[q]
    <3>1. q = s
      BY <1>5, <2>2, RouterAssumption
    <3>2. QED
      BY <1>2, <1>7, <3>1 DEF AppCared
  <2>3. QED
    BY <1>16, <2>1, <2>2
<1>17. Hands(d)
  BY <1>1, <1>14, <1>15, <1>16 DEF Hands
<1>18. QED
  BY <1>7, <1>8, <1>9, <1>10, <1>12, <1>13, <1>17 DEF Orderly, Kept

(* DisposeApp: the application is disposed of, by this thread for the      *)
(* first time.                                                             *)
LEMMA DisposeAppStep ==
  ASSUME IInv, NEW d \in Disposers, DisposeApp(d)
  PROVE  Orderly(d) /\ Kept(d)
<1> DEFINE s == disposer[d].server
<1>1. PICK p \in {"walk", "failed"} :
        /\ disposer[d].pc = "disposeApp" /\ UNCHANGED built /\ Move(d, p)
        /\ appDisposals' = [appDisposals EXCEPT ![s][d] = @ + 1]
        /\ UNCHANGED <<frontDisposed, shutDown, routerDisposed, serverDisposed>>
  BY DEF DisposeApp, At, frontFlags
<1>2. p \in Places
  BY DEF Places
<1>3. PlaceInv(d) /\ RightInv(d) /\ WalkInv(d) /\ OnceInv(d) /\ FlagsOK /\ BuiltOK
  BY DEF IInv, TypeOK
<1>4. s \in Servers
  BY <1>1, <1>3 DEF PlaceInv, AtServer
<1>5. /\ appDisposals' \in [Servers -> [Disposers -> Nat]]
      /\ \A q \in Servers, e \in Disposers :
           appDisposals'[q][e] = IF q = s /\ e = d THEN appDisposals[q][e] + 1
                                                   ELSE appDisposals[q][e]
  BY <1>1, <1>3, <1>4 DEF FlagsOK
<1>6. Monotone /\ FlagsOK' /\ ByRight
  BY <1>1, <1>3, <1>5 DEF Monotone, FlagsOK, ByRight, built
<1>7. /\ StepOf(d) /\ HoldsTo(d)
      /\ table' = table /\ front' = front
      /\ disposer'[d].pc = p
      /\ disposer'[d].front = disposer[d].front
      /\ disposer'[d].router = disposer[d].router
      /\ disposer'[d].todo = disposer[d].todo
      /\ disposer'[d].server = s
  BY <1>1, <1>2, <1>5, <1>6, MoveSteps
<1>8. appDisposals[s][d] = 0
  BY <1>1, <1>3, <1>4 DEF OnceInv
<1>9. serverDisposed[s]
  BY <1>1, <1>3, <1>4 DEF OnceInv
<1>10. PlaceInv(d)'
  BY <1>1, <1>3, <1>7 DEF PlaceInv, AtFront, AtRouter, AtServer, Chained
<1>11. RightInv(d)'
  BY <1>1, <1>3, <1>7, RightAtServer DEF AtServer, Walking
<1>12. ASSUME disposer[d].router # 0, NEW k \in Chained(table[disposer[d].router])
       PROVE  \/ k \in disposer[d].todo
              \/ serverDisposed[table[disposer[d].router][k].server]
  BY <1>1, <1>3, <1>12 DEF WalkInv, Walking, AtServer
<1>13. WalkInv(d)'
  BY <1>1, <1>7, <1>12 DEF WalkInv, Chained, Walking, AtServer
<1>14. OnceInv(d)'
  BY <1>1, <1>3, <1>5, <1>7, <1>8, <1>9 DEF OnceInv
<1>15. CASE p = "failed"
  BY <1>6, <1>7, <1>10, <1>11, <1>13, <1>14, <1>15 DEF Orderly, Kept, Failure
<1>16. CASE p = "walk"
  <2>1. \A f \in DOMAIN front : ~FrontCared(f, d)
    BY <1>1 DEF FrontCared, AtRouter
  <2>2. ASSUME NEW q \in DOMAIN table, RouterCared(q, d)
        PROVE  RouterCared(q, d)'
    BY <1>7, <1>16, <2>2 DEF RouterCared, Walking
  <2>3. ASSUME NEW q \in Owning, AppCared(q, d)
        PROVE  AppCared(q, d)'
    <3>1. q \in Servers /\ appDisposals[q][d] \in Nat
      BY <1>3, RouterAssumption DEF FlagsOK
    <3>2. QED
      BY <1>5, <1>8, <2>3, <3>1 DEF AppCared
  <2>4. Hands(d)
    BY <1>1, <2>1, <2>2, <2>3 DEF Hands
  <2>5. QED
    BY <1>6, <1>7, <1>10, <1>11, <1>13, <1>14, <2>4 DEF Orderly, Kept
<1>17. QED
  BY <1>1, <1>15, <1>16

-----------------------------------------------------------------------------
(* The invariant.                                                          *)

(* What is seen to stays seen to.                                          *)
LEMMA PassedOnKept ==
  ASSUME IInv, PassedOn, NEW d \in Disposers, StepOf(d), Hands(d)
  PROVE  PassedOn'
<1>1. /\ table' = table /\ front' = front
      /\ \A e \in Disposers \ {d} : disposer'[e] = disposer[e]
      /\ \A s \in Servers, e \in Disposers \ {d} : appDisposals'[s][e] = appDisposals[s][e]
  BY DEF StepOf, Monotone, built
<1>2. BuiltOK /\ BuiltInv
  BY DEF IInv, TypeOK
<1>3. ASSUME NEW f \in DOMAIN front, frontDisposed'[f], front[f].chainDispose
      PROVE  Disposed(front[f].target)' \/ \E e \in Disposers : FrontCared(f, e)'
  <2>1. CASE ~frontDisposed[f]
    BY <1>3, <2>1 DEF Hands
  <2>2. CASE Disposed(front[f].target)
    <3> DEFINE c == front[f].target
    <3>1. c \in Conduit \cup {Nothing}
      BY <1>2 DEF BuiltInv
    <3>2. /\ c.front # 0 => c.front \in DOMAIN front
          /\ c.router # 0 => c.router \in DOMAIN table
          /\ c.server # Null => c.server \in Servers
      BY <1>2, <3>1, ConduitFacts
    <3>3. QED
      BY <1>1, <2>2, <3>2 DEF Disposed, StepOf, Monotone
  <2>3. ASSUME NEW e \in Disposers, FrontCared(f, e)
        PROVE  FrontCared(f, e)' \/ Disposed(front[f].target)'
    <3>1. CASE e = d
      BY <1>3, <2>3, <3>1 DEF Hands
    <3>2. CASE e # d
      BY <1>1, <2>3, <3>2 DEF FrontCared, FrontAt, RouterAt, ServerAt
    <3>3. QED
      BY <3>1, <3>2
  <2>4. QED
    BY <1>3, <2>1, <2>2, <2>3 DEF PassedOn
<1>4. ASSUME NEW r \in DOMAIN table, routerDisposed'[r]
      PROVE  ServersDisposed(r)' \/ \E e \in Disposers : RouterCared(r, e)'
  <2>1. CASE ~routerDisposed[r]
    BY <1>4, <2>1 DEF Hands
  <2>2. CASE ServersDisposed(r)
    <3>1. \A k \in Chained(table[r]) : table[r][k].server \in Servers
      BY <1>2 DEF BuiltOK, Chained, Tables, RouteRec
    <3>2. QED
      BY <1>1, <2>2, <3>1 DEF ServersDisposed, StepOf, Monotone, Chained
  <2>3. ASSUME NEW e \in Disposers, RouterCared(r, e)
        PROVE  RouterCared(r, e)' \/ ServersDisposed(r)'
    <3>1. CASE e = d
      BY <2>3, <3>1 DEF Hands
    <3>2. CASE e # d
      BY <1>1, <2>3, <3>2 DEF RouterCared
    <3>3. QED
      BY <3>1, <3>2
  <2>4. QED
    BY <1>4, <2>1, <2>2, <2>3 DEF PassedOn
<1>5. ASSUME NEW s \in Owning, serverDisposed'[s]
      PROVE  \E e \in Disposers : AppCared(s, e)'
  <2>1. CASE ~serverDisposed[s]
    BY <1>5, <2>1 DEF Hands
  <2>2. ASSUME NEW e \in Disposers, AppCared(s, e)
        PROVE  AppCared(s, e)'
    <3>1. CASE e = d
      BY <2>2, <3>1 DEF Hands
    <3>2. CASE e # d
      BY <1>1, <2>2, <3>2, RouterAssumption DEF AppCared
    <3>3. QED
      BY <3>1, <3>2
  <2>3. QED
    BY <1>5, <2>1, <2>2 DEF PassedOn
<1>6. QED
  BY <1>1, <1>3, <1>4, <1>5 DEF PassedOn

(* A disposer that has failed takes no more steps.                         *)
LEMMA FailureKept ==
  ASSUME IInv, Failure, NEW d \in Disposers, StepOf(d), disposer[d].pc # "failed"
  PROVE  Failure'
BY DEF Failure, StepOf

(* An orderly step of one disposer keeps the invariant.                    *)
LEMMA OrderlyStep ==
  ASSUME IInv, NEW d \in Disposers, Orderly(d), Kept(d), disposer[d].pc # "failed"
  PROVE  IInv'
<1>1. StepOf(d) /\ HoldsTo(d) /\ ByRight /\ (Failure' \/ Hands(d))
  BY DEF Orderly
<1>2. \A e \in Disposers : PlaceInv(e)' /\ RightInv(e)' /\ WalkInv(e)' /\ OnceInv(e)'
  BY <1>1, OthersKept DEF Kept
<1>3. BuiltOK' /\ BuiltInv' /\ DerivedKeepsRoutes'
  BY <1>1, BuiltKept DEF StepOf, Monotone
<1>4. TypeOK'
  <2>1. FlagsOK' /\ disposer' \in [Disposers -> DisposerRec]
    BY <1>1 DEF StepOf
  <2>2. DisposersOK'
    BY <1>2, <2>1 DEF DisposersOK, DisposerRec, PlaceInv, AtFront, AtRouter, AtServer
  <2>3. QED
    BY <1>3, <2>1, <2>2 DEF TypeOK
<1>5. OwnershipRespected'
  <2>1. \A s \in Servers : serverDisposed[s] => ServerDue(s)
    BY OwnershipIsDue DEF IInv
  <2>2. \A r \in DOMAIN table : routerDisposed[r] => RouterDue(r)
    BY OwnershipIsDue DEF IInv
  <2>3. /\ \A s \in Servers : ServerDue(s) => ServerDue(s)'
        /\ \A r \in DOMAIN table : RouterDue(r) => RouterDue(r)'
    BY <1>1, RightsKept
  <2>4. /\ \A s \in Servers : serverDisposed'[s] => ServerDue(s)'
        /\ \A r \in DOMAIN table : routerDisposed'[r] => RouterDue(r)'
    BY <1>1, <2>1, <2>2, <2>3 DEF ByRight
  <2>5. table' = table
    BY <1>1 DEF StepOf, Monotone, built
  <2>6. QED
    BY <2>4, <2>5 DEF OwnershipRespected, ServerDue, RouterDue, RouterOwns, FrontOwns
<1>6. Failure' \/ PassedOn'
  BY <1>1, PassedOnKept, FailureKept DEF IInv
<1>7. QED
  BY <1>2, <1>3, <1>4, <1>5, <1>6 DEF IInv

(* So does every step of disposal.                                         *)
LEMMA DisposalStep ==
  ASSUME IInv, NEW d \in Disposers,
         Disposing(d) \/ \E c \in Conduit : StartDisposing(d, c)
  PROVE  IInv'
<1>1. Orderly(d) /\ Kept(d)
  BY StartDisposingStep, ChainStep, TestFrontStep, SetFrontStep, ShutDownStep, TestRouterStep,
     SetRouterStep, WalkStep, TestServerStep, SetServerStep, DisposeAppStep DEF Disposing
<1>2. disposer[d].pc # "failed"
  BY DEF Disposing, StartDisposing, TestFront, SetFront, ShutDown, Chain, TestRouter,
         SetRouter, Walk, TestServer, SetServer, DisposeApp, At
<1>3. QED
  BY <1>1, <1>2, OrderlyStep

-----------------------------------------------------------------------------
(* Building.                                                               *)

(* What is built is added to what was, and is not disposed of.             *)
Grows ==
  /\ UNCHANGED <<serverDisposed, appDisposals, disposer>>
  /\ DOMAIN table \subseteq DOMAIN table'
  /\ \A r \in DOMAIN table : table'[r] = table[r] /\ routerDisposed'[r] = routerDisposed[r]
  /\ \A r \in DOMAIN table' \ DOMAIN table : ~routerDisposed'[r]
  /\ DOMAIN front \subseteq DOMAIN front'
  /\ \A f \in DOMAIN front : front'[f] = front[f] /\ frontDisposed'[f] = frontDisposed[f]
  /\ \A f \in DOMAIN front' \ DOMAIN front : ~frontDisposed'[f]

(* Building disturbs no disposer.                                          *)
LEMMA GrowthKeepsDisposers ==
  ASSUME IInv, Grows, NEW d \in Disposers
  PROVE  PlaceInv(d)' /\ RightInv(d)' /\ WalkInv(d)' /\ OnceInv(d)'
<1>1. PlaceInv(d) /\ RightInv(d) /\ WalkInv(d) /\ OnceInv(d) /\ BuiltOK
  BY DEF IInv, TypeOK
<1>2. disposer' = disposer /\ serverDisposed' = serverDisposed /\ appDisposals' = appDisposals
  BY DEF Grows
<1>3. disposer[d].router # 0 => disposer[d].router \in DOMAIN table
  BY <1>1 DEF PlaceInv
<1>4. PlaceInv(d)'
  BY <1>1, <1>2, <1>3 DEF PlaceInv, Grows, Chained, AtRouter
<1>5. FrontOwns(RouterAt(disposer[d].router)) => FrontOwns(RouterAt(disposer[d].router))'
  BY <1>2 DEF FrontOwns, Grows, RouterAt
<1>6. FrontOwns(ServerAt(disposer[d].server)) => FrontOwns(ServerAt(disposer[d].server))'
  BY <1>2 DEF FrontOwns, Grows, ServerAt
<1>7. disposer[d].router # 0 /\ RouterOwns(disposer[d].router, disposer[d].server)
        => RouterOwns(disposer[d].router, disposer[d].server)'
  BY <1>2, <1>3 DEF RouterOwns, Grows
<1>8. disposer[d].router # 0 =>
        routerDisposed'[disposer[d].router] = routerDisposed[disposer[d].router]
  BY <1>3 DEF Grows
<1>9. disposer[d].pc \in {"shutDown", "chain"} =>
        frontDisposed'[disposer[d].front] = frontDisposed[disposer[d].front]
  BY <1>1 DEF Grows, PlaceInv, AtFront
<1>10. RightInv(d)'
  BY <1>1, <1>2, <1>5, <1>6, <1>7, <1>8, <1>9 DEF RightInv
<1>11. WalkInv(d)'
  BY <1>1, <1>2, <1>3 DEF WalkInv, Grows, Chained
<1>12. OnceInv(d)'
  BY <1>1, <1>2 DEF OnceInv
<1>13. QED
  BY <1>4, <1>10, <1>11, <1>12

(* Building takes no right away.                                           *)
LEMMA GrowthKeepsDue ==
  ASSUME IInv, Grows
  PROVE  OwnershipRespected'
<1>1. ASSUME NEW s \in Servers, serverDisposed'[s]
      PROVE  ServerDue(s)'
  <2>1. ServerDue(s)
    BY <1>1, OwnershipIsDue DEF IInv, Grows
  <2>2. CASE \E r \in DOMAIN table : routerDisposed[r] /\ RouterOwns(r, s)
    BY <2>2 DEF ServerDue, RouterOwns, Grows
  <2>3. FrontOwns(ServerAt(s)) => FrontOwns(ServerAt(s))'
    BY DEF FrontOwns, Grows, ServerAt
  <2>4. QED
    BY <2>1, <2>2, <2>3 DEF ServerDue, Grows
<1>2. ASSUME NEW r \in DOMAIN table', routerDisposed'[r]
      PROVE  RouterDue(r)'
  <2>1. RouterDue(r)
    BY <1>2, OwnershipIsDue DEF IInv, Grows
  <2>2. FrontOwns(RouterAt(r)) => FrontOwns(RouterAt(r))'
    BY DEF FrontOwns, Grows, RouterAt
  <2>3. QED
    BY <2>1, <2>2 DEF RouterDue, Grows
<1>3. QED
  BY <1>1, <1>2 DEF OwnershipRespected, ServerDue, RouterDue, RouterOwns, FrontOwns

(* Building leaves nothing to be seen to.                                  *)
LEMMA GrowthKeepsPassedOn ==
  ASSUME IInv, Grows
  PROVE  Failure' \/ PassedOn'
<1> SUFFICES ASSUME PassedOn
             PROVE  PassedOn'
  BY DEF IInv, Failure, Grows
<1>1. BuiltOK /\ BuiltInv
  BY DEF IInv, TypeOK
<1>2. disposer' = disposer /\ serverDisposed' = serverDisposed /\ appDisposals' = appDisposals
  BY DEF Grows
<1>3. ASSUME NEW f \in DOMAIN front', frontDisposed'[f], front'[f].chainDispose
      PROVE  Disposed(front[f].target)' \/ \E e \in Disposers : FrontCared(f, e)'
  <2>1. f \in DOMAIN front /\ frontDisposed[f] /\ front'[f] = front[f] /\ front[f].chainDispose
    BY <1>3 DEF Grows
  <2>2. CASE Disposed(front[f].target)
    <3> DEFINE c == front[f].target
    <3>1. c \in Conduit \cup {Nothing}
      BY <1>1, <2>1 DEF BuiltInv
    <3>2. /\ c.front # 0 => c.front \in DOMAIN front
          /\ c.router # 0 => c.router \in DOMAIN table
      BY <1>1, <3>1, ConduitFacts
    <3>3. QED
      BY <1>2, <2>1, <2>2, <3>2 DEF Disposed, Grows
  <2>3. ASSUME NEW e \in Disposers, FrontCared(f, e)
        PROVE  FrontCared(f, e)'
    BY <1>2, <2>1, <2>3 DEF FrontCared, FrontAt, RouterAt, ServerAt
  <2>4. QED
    BY <2>1, <2>2, <2>3 DEF PassedOn
<1>4. ASSUME NEW r \in DOMAIN table', routerDisposed'[r]
      PROVE  ServersDisposed(r)' \/ \E e \in Disposers : RouterCared(r, e)'
  <2>1. r \in DOMAIN table /\ routerDisposed[r] /\ table'[r] = table[r]
    BY <1>4 DEF Grows
  <2>2. ServersDisposed(r) => ServersDisposed(r)'
    BY <1>2, <2>1 DEF ServersDisposed, Chained
  <2>3. \A e \in Disposers : RouterCared(r, e) => RouterCared(r, e)'
    BY <1>2 DEF RouterCared
  <2>4. QED
    BY <2>1, <2>2, <2>3 DEF PassedOn
<1>5. ASSUME NEW s \in Owning, serverDisposed'[s]
      PROVE  \E e \in Disposers : AppCared(s, e)'
  BY <1>2, <1>5 DEF PassedOn, AppCared
<1>6. QED
  BY <1>3, <1>4, <1>5 DEF PassedOn

(* So building keeps the invariant if what is built is well formed.        *)
LEMMA GrowthKeeps ==
  ASSUME IInv, Grows, BuiltOK', FlagsOK', BuiltInv', DerivedKeepsRoutes'
  PROVE  IInv'
<1>1. \A d \in Disposers : PlaceInv(d)' /\ RightInv(d)' /\ WalkInv(d)' /\ OnceInv(d)'
  BY GrowthKeepsDisposers
<1>2. DisposersOK'
  BY <1>1 DEF IInv, TypeOK, DisposersOK, Grows, PlaceInv, AtFront, AtRouter, AtServer
<1>3. QED
  BY <1>1, <1>2, GrowthKeepsDue, GrowthKeepsPassedOn DEF IInv, TypeOK

(* The constructors of a router, and WithRoute: what is built keeps the    *)
(* routes of what it is built from.                                        *)
LEMMA NewRouterStep ==
  ASSUME IInv, NEW t \in Tables, NEW from \in 0 .. Len(table), NewRouter(t, from),
         from # 0 => \A k \in DOMAIN table[from] : k \in DOMAIN t /\ t[k] = table[from][k]
  PROVE  IInv'
<1> DEFINE n == Len(table) + 1
<1>1. BuiltOK /\ FlagsOK /\ BuiltInv /\ DerivedKeepsRoutes
  BY DEF IInv, TypeOK
<1>2. /\ table' = Append(table, t) /\ base' = Append(base, from)
      /\ routerDisposed' = Append(routerDisposed, FALSE)
      /\ front' = front /\ UNCHANGED <<frontDisposed, shutDown, serverDisposed, appDisposals, disposer>>
      /\ Len(table) + Len(front) < MaxConduits
  BY DEF NewRouter, RoomLeft, frontFlags
<1>3. /\ Len(table) \in Nat /\ Len(front) \in Nat /\ Len(base) = Len(table)
      /\ Len(routerDisposed) = Len(table)
      /\ DOMAIN table = 1 .. Len(table) /\ DOMAIN base = 1 .. Len(table)
      /\ DOMAIN routerDisposed = 1 .. Len(table)
  BY <1>1 DEF BuiltOK, FlagsOK
<1>4. n \in 1 .. MaxConduits /\ from \in 0 .. MaxConduits
  BY <1>2, <1>3, RouterAssumption
<1>5. /\ table' \in Seq(Tables) /\ Len(table') = n /\ DOMAIN table' = DOMAIN table \cup {n}
      /\ table'[n] = t /\ \A r \in DOMAIN table : table'[r] = table[r]
  BY <1>1, <1>2, AppendFacts DEF BuiltOK
<1>6. /\ base' \in Seq(0 .. MaxConduits) /\ Len(base') = n /\ DOMAIN base' = DOMAIN base \cup {n}
      /\ base'[n] = from /\ \A r \in DOMAIN base : base'[r] = base[r]
  BY <1>1, <1>2, <1>3, <1>4, AppendFacts DEF BuiltOK
<1>7. /\ routerDisposed' \in Seq(BOOLEAN) /\ Len(routerDisposed') = n
      /\ ~routerDisposed'[n] /\ \A r \in DOMAIN table : routerDisposed'[r] = routerDisposed[r]
  BY <1>1, <1>2, <1>3, AppendFlag DEF FlagsOK
<1>8. BuiltOK' /\ FlagsOK'
  BY <1>1, <1>2, <1>5, <1>6, <1>7 DEF BuiltOK, FlagsOK
<1>9. Grows
  BY <1>2, <1>5, <1>7 DEF Grows
<1>10. BuiltInv'
  <2>1. Len(table') + Len(front') <= MaxConduits
    BY <1>2, <1>3, <1>5, RouterAssumption
  <2>2. \A r \in DOMAIN base' : base'[r] < r
    BY <1>1, <1>3, <1>6 DEF BuiltInv, BuiltOK
  <2>3. \A f \in DOMAIN front' : front'[f].target \in (Conduit \cup {Nothing})'
    BY <1>1, <1>2, <1>5 DEF BuiltInv, Conduit, Nothing, FrontAt, RouterAt, ServerAt
  <2>4. QED
    BY <2>1, <2>2, <2>3 DEF BuiltInv
<1>11. DerivedKeepsRoutes'
  <2> SUFFICES ASSUME NEW r \in DOMAIN base', base'[r] # 0, NEW k \in DOMAIN table'[base'[r]]
               PROVE  k \in DOMAIN table'[r] /\ table'[r][k] = table'[base'[r]][k]
    BY DEF DerivedKeepsRoutes
  <2>1. CASE r = n
    <3>1. from \in DOMAIN table /\ table'[base'[r]] = table[from] /\ table'[r] = t
      BY <1>3, <1>5, <1>6, <2>1
    <3>2. QED
      BY <1>6, <2>1, <3>1
  <2>2. CASE r \in DOMAIN base
    <3>1. base'[r] = base[r] /\ base[r] \in DOMAIN table /\ r \in DOMAIN table
      <4>1. base'[r] = base[r] /\ base[r] # 0 /\ base[r] < r
        BY <1>1, <1>6, <2>2 DEF BuiltInv
      <4>2. base[r] \in 0 .. MaxConduits
        BY <1>1, <2>2, ElementFacts DEF BuiltOK
      <4>3. QED
        BY <1>3, <2>2, <4>1, <4>2, RouterAssumption
    <3>2. QED
      BY <1>1, <1>5, <2>2, <3>1 DEF DerivedKeepsRoutes
  <2>3. QED
    BY <1>6, <2>1, <2>2
<1>12. QED
  BY <1>8, <1>9, <1>10, <1>11, GrowthKeeps

(* The constructors of the fronts.                                         *)
LEMMA WrapStep ==
  ASSUME IInv, NEW c \in Conduit \cup {Nothing}, NEW chain \in BOOLEAN, NEW hosted \in BOOLEAN,
         Wrap(c, chain, hosted)
  PROVE  IInv'
<1> DEFINE n == Len(front) + 1
           rec == FrontRec(c, chain, hosted)
           S == [target : ConduitRefs, chainDispose : BOOLEAN, hosted : BOOLEAN]
<1>1. BuiltOK /\ FlagsOK /\ BuiltInv /\ DerivedKeepsRoutes
  BY DEF IInv, TypeOK
<1>2. /\ front' = Append(front, rec)
      /\ frontDisposed' = Append(frontDisposed, FALSE) /\ shutDown' = Append(shutDown, FALSE)
      /\ UNCHANGED <<table, base, routerDisposed, serverDisposed, appDisposals, disposer>>
      /\ Len(table) + Len(front) < MaxConduits
  BY DEF Wrap, RoomLeft
<1>3. rec \in S /\ rec.target = c
  BY <1>1, ConduitFacts DEF FrontRec
<1>4. /\ Len(table) \in Nat /\ Len(front) \in Nat /\ DOMAIN front = 1 .. Len(front)
      /\ Len(frontDisposed) = Len(front) /\ DOMAIN frontDisposed = 1 .. Len(front)
      /\ Len(shutDown) = Len(front)
  BY <1>1 DEF BuiltOK, FlagsOK
<1>5. front \in Seq(S) /\ frontDisposed \in Seq(BOOLEAN) /\ shutDown \in Seq(BOOLEAN)
  BY <1>1 DEF BuiltOK, FlagsOK
<1> HIDE DEF S, rec
<1>6. /\ front' \in Seq(S) /\ Len(front') = n /\ DOMAIN front' = DOMAIN front \cup {n}
      /\ front'[n] = rec /\ \A f \in DOMAIN front : front'[f] = front[f]
  BY <1>2, <1>3, <1>5, AppendFacts
<1>7. /\ frontDisposed' \in Seq(BOOLEAN) /\ Len(frontDisposed') = n
      /\ ~frontDisposed'[n] /\ \A f \in DOMAIN front : frontDisposed'[f] = frontDisposed[f]
  BY <1>2, <1>4, <1>5, AppendFlag
<1>8. shutDown' \in Seq(BOOLEAN) /\ Len(shutDown') = n
  BY <1>2, <1>4, <1>5, AppendFlag
<1>9. BuiltOK'
  BY <1>1, <1>2, <1>6 DEF BuiltOK, ConduitRefs, S
<1>10. FlagsOK'
  BY <1>1, <1>2, <1>6, <1>7, <1>8 DEF FlagsOK
<1>11. Grows
  BY <1>2, <1>6, <1>7 DEF Grows
<1>12. BuiltInv'
  <2>1. Len(table') + Len(front') <= MaxConduits
    BY <1>2, <1>4, <1>6, RouterAssumption
  <2>2. \A x \in Conduit \cup {Nothing} : x \in (Conduit \cup {Nothing})'
    BY <1>2, <1>6 DEF Conduit, Nothing, FrontAt, RouterAt, ServerAt
  <2>3. \A f \in DOMAIN front' : front'[f].target \in Conduit \cup {Nothing}
    BY <1>1, <1>3, <1>6 DEF BuiltInv
  <2>4. QED
    BY <1>1, <1>2, <2>1, <2>2, <2>3 DEF BuiltInv
<1>13. DerivedKeepsRoutes'
  BY <1>1, <1>2 DEF DerivedKeepsRoutes
<1>14. QED
  BY <1>9, <1>10, <1>11, <1>12, <1>13, GrowthKeeps

(* Every way of building is one of these.                                  *)
LEMMA BuildingStep ==
  ASSUME IInv, Building
  PROVE  IInv'
<1>0. BuiltOK /\ DOMAIN table = 1 .. Len(table) /\ Len(table) \in Nat
  BY DEF IInv, TypeOK, BuiltOK
<1>1. CASE Create
  <2>1. <<>> \in [{} -> RouteRec] /\ {} \in SUBSET Routes
    OBVIOUS
  <2>2. <<>> \in Tables
    BY <2>1 DEF Tables
  <2>3. QED
    BY <1>0, <1>1, <2>2, NewRouterStep DEF Create
<1>2. ASSUME NEW route \in Routes, NEW rec \in RouteRec, CreateWith(route, rec)
      PROVE  IInv'
  <2>1. [k \in {route} |-> rec] \in [{route} -> RouteRec] /\ {route} \in SUBSET Routes
    OBVIOUS
  <2>2. [k \in {route} |-> rec] \in Tables
    BY <2>1 DEF Tables
  <2>3. QED
    BY <1>0, <1>2, <2>2, NewRouterStep DEF CreateWith
<1>3. ASSUME NEW r \in DOMAIN table, NEW route \in Routes, NEW rec \in RouteRec,
             WithRoute(r, route, rec)
      PROVE  IInv'
  <2> DEFINE t == [k \in DOMAIN table[r] \cup {route} |->
                     IF k = route THEN rec ELSE table[r][k]]
  <2>1. PICK R \in SUBSET Routes : table[r] \in [R -> RouteRec]
    <3>1. table[r] \in Tables
      BY <1>0, ElementFacts DEF BuiltOK
    <3>2. QED
      BY <3>1 DEF Tables
  <2>2. t \in Tables
    <3>1. R \cup {route} \in SUBSET Routes /\ t \in [R \cup {route} -> RouteRec]
      BY <2>1
    <3>2. QED
      BY <3>1 DEF Tables
  <2>3. \A k \in DOMAIN table[r] : k \in DOMAIN t /\ t[k] = table[r][k]
    BY <1>3 DEF WithRoute
  <2>4. NewRouter(t, r) /\ r \in 0 .. Len(table)
    BY <1>0, <1>3 DEF WithRoute
  <2> HIDE DEF t
  <2>5. QED
    BY <2>2, <2>3, <2>4, NewRouterStep
<1>4. ASSUME NEW c \in Conduit \cup {Nothing}, NEW chain \in BOOLEAN, NEW hosted \in BOOLEAN,
             Wrap(c, chain, hosted)
      PROVE  IInv'
  BY <1>4, WrapStep
<1>5. QED
  BY <1>1, <1>2, <1>3, <1>4 DEF Building

(* The invariant holds throughout.                                         *)
LEMMA StepInvariant == IInv /\ [Next]_vars => IInv'
<1> SUFFICES ASSUME IInv, [Next]_vars
             PROVE  IInv'
  OBVIOUS
<1>1. CASE Building
  BY <1>1, BuildingStep
<1>2. CASE \E d \in Disposers : Disposing(d) \/ \E c \in Conduit : StartDisposing(d, c)
  BY <1>2, DisposalStep
<1>3. CASE UNCHANGED vars
  <2>1. UNCHANGED <<table, base, front, frontDisposed, shutDown, routerDisposed,
                    serverDisposed, appDisposals, disposer>>
    BY <1>3 DEF vars, built, flags, frontFlags
  <2>2. Grows
    BY <2>1 DEF Grows
  <2>3. BuiltOK' /\ FlagsOK'
    BY <2>1 DEF IInv, TypeOK, BuiltOK, FlagsOK
  <2>4. BuiltInv' /\ DerivedKeepsRoutes'
    BY <2>1, BuiltKept DEF built
  <2>5. QED
    BY <2>2, <2>3, <2>4, GrowthKeeps
<1>4. QED
  BY <1>1, <1>2, <1>3 DEF Next

(* The invariant holds throughout every behaviour.                         *)
THEOREM Invariance == Spec => []IInv
BY InitInvariant, StepInvariant, PTL DEF Spec

-----------------------------------------------------------------------------
(* What follows from the invariant.                                        *)

(* Every variable keeps to its domain, whatever is built and disposed of.  *)
THEOREM TypeCorrect == Spec => []TypeOK
<1>1. IInv => TypeOK
  BY DEF IInv
<1>2. QED
  BY <1>1, Invariance, PTL

(* Building on a router never takes a route away or redirects it.          *)
THEOREM RoutesKept == Spec => []DerivedKeepsRoutes
<1>1. IInv => DerivedKeepsRoutes
  BY DEF IInv
<1>2. QED
  BY <1>1, Invariance, PTL

(* Nothing is disposed of but by the thread that was asked to, or through  *)
(* what owns it.                                                           *)
THEOREM OwnershipKept == Spec => []OwnershipRespected
<1>1. IInv => OwnershipRespected
  BY DEF IInv
<1>2. QED
  BY <1>1, Invariance, PTL

(* A walk over a router's servers leaves none of them out, whoever else    *)
(* disposes of them meanwhile.                                             *)
THEOREM WalkComplete == Spec => []WalkDisposesAll
<1>1. IInv => WalkDisposesAll
  BY DEF IInv, WalkInv, WalkDisposesAll, At
<1>2. QED
  BY <1>1, Invariance, PTL

(* One disposal of a router disposes of no application twice.              *)
THEOREM OnceOnly == Spec => []OnceDespiteManyRoutes
<1>1. IInv => OnceDespiteManyRoutes
  BY DEF IInv, OnceInv, OnceDespiteManyRoutes
<1>2. QED
  BY <1>1, Invariance, PTL

(* A thread that finds a flag set may trust the thread that set it: when   *)
(* all disposals are over and none has failed, nothing owned is left out.  *)
THEOREM DisposalComplete == Spec => []QuietMeansComplete
<1>1. ASSUME IInv, \A d \in Disposers : disposer[d].pc \in {"idle", "returned", "finished"}
      PROVE  /\ \A f \in DOMAIN front :
                  frontDisposed[f] /\ front[f].chainDispose => Disposed(front[f].target)
             /\ \A r \in DOMAIN table : routerDisposed[r] =>
                  \A k \in Chained(table[r]) : serverDisposed[table[r][k].server]
             /\ \A s \in Owning : serverDisposed[s] =>
                  \E d \in Disposers : appDisposals[s][d] > 0
  <2>1. ~Failure
    BY <1>1 DEF Failure
  <2>2. PassedOn
    BY <1>1, <2>1 DEF IInv
  <2>3. \A f, r, s : \A d \in Disposers :
          /\ ~FrontCared(f, d) /\ ~RouterCared(r, d)
          /\ AppCared(s, d) => appDisposals[s][d] > 0
    BY <1>1 DEF FrontCared, RouterCared, AppCared, Walking, AtRouter, AtServer
  <2>4. QED
    BY <2>2, <2>3 DEF PassedOn, ServersDisposed
<1>2. IInv => QuietMeansComplete
  BY <1>1 DEF QuietMeansComplete
<1>3. QED
  BY <1>2, Invariance, PTL

=============================================================================
