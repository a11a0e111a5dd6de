---------------------------- MODULE ConduitRouter ----------------------------
(***************************************************************************)
(* ConduitRouter: routers built from one another with WithRoute, the       *)
(* servers they direct calls to, the conduits in front of them, and how    *)
(* disposal runs through all of these down to an application.              *)
(*                                                                         *)
(* A router is immutable but for its _disposed flag; its servers may be    *)
(* shared with other routers and with their owner.  A front is a conduit   *)
(* object that holds one other conduit and may own it (chainDispose): a    *)
(* ConduitClient, a ProtobufGrpcServer, a FakeConduitServer or a           *)
(* FakeConduitClient.  Disposers are threads that dispose of a front, a    *)
(* router or a server; the test of a _disposed flag and its assignment are *)
(* two steps, and awaiting an application's own DisposeAsync, or the       *)
(* shutdown of a gRPC server, is one more.                                 *)
(***************************************************************************)
EXTENDS Naturals, Sequences, FiniteSets, Conduits

CONSTANTS
  Servers,      (* the ConduitServers                                      *)
  Owning,       (* those constructed with chainDispose                     *)
  Routes,       (* the route numbers in use; 0 is the default route        *)
  Disposers,    (* threads that dispose                                    *)
  MaxConduits   (* bound: how many routers and fronts are built            *)

ASSUME RouterAssumption ==
  /\ Owning \subseteq Servers
  /\ Null \notin Servers
  /\ Routes \subseteq Nat
  /\ MaxConduits \in Nat

VARIABLES
  table,           (* per router built, its _routes                        *)
  base,            (* history: the router it was built from, 0 if none     *)
  front,           (* per front built, what it holds and whether it owns it*)
  frontDisposed,   (* per front, its _disposed flag                        *)
  shutDown,        (* per front, whether its gRPC server was shut down     *)
  routerDisposed,  (* per router, its _disposed flag                       *)
  serverDisposed,  (* per server, its _disposed flag                       *)
  appDisposals,    (* history: how often a disposer disposed of a server's *)
                   (* application                                          *)
  disposer         (* per disposer, where it is                            *)

built      == <<table, base, front>>
frontFlags == <<frontDisposed, shutDown>>
flags      == <<frontFlags, routerDisposed, serverDisposed, appDisposals>>
vars == <<built, flags, disposer>>

RouteRec == [server : Servers, chainDispose : BOOLEAN]

Tables == UNION {[R -> RouteRec] : R \in SUBSET Routes}

(* A conduit: a front or a router by its number, or a server.  Nothing     *)
(* stands for one that is neither IAsyncDisposable nor IDisposable, such   *)
(* as a ProtobufGrpcClient or a HttpConduitClient.                         *)
Nothing == [front |-> 0, router |-> 0, server |-> Null]

FrontAt(f)  == [Nothing EXCEPT !.front = f]
RouterAt(r) == [Nothing EXCEPT !.router = r]
ServerAt(s) == [Nothing EXCEPT !.server = s]

(* hosted: it runs a gRPC server of its own (ProtobufGrpcServer).          *)
FrontRec(target, chain, hosted) ==
  [target |-> target, chainDispose |-> chain, hosted |-> hosted]

Places == {"idle", "testFront", "setFront", "shutDown", "chain",
           "testRouter", "setRouter", "walk", "testServer", "setServer",
           "disposeApp", "returned", "finished", "failed"}

Idle == [pc |-> "idle", front |-> 0, router |-> 0, todo |-> {}, server |-> Null]

Init ==
  /\ table = <<>> /\ base = <<>> /\ front = <<>>
  /\ frontDisposed = <<>> /\ shutDown = <<>> /\ routerDisposed = <<>>
  /\ serverDisposed = [s \in Servers |-> FALSE]
  /\ appDisposals = [s \in Servers |-> [d \in Disposers |-> 0]]
  /\ disposer = [d \in Disposers |-> Idle]

-----------------------------------------------------------------------------
(* Building.                                                               *)

RoomLeft == Len(table) + Len(front) < MaxConduits

(* Mutant: the router has no _disposed flag of its own.                    *)
NewRouterSharingFlag(t, from) ==
  /\ RoomLeft
  /\ table' = Append(table, t)
  /\ base' = Append(base, from)
  /\ UNCHANGED <<front, flags, disposer>>

NewRouter(t, from) ==
  /\ RoomLeft
  /\ table' = Append(table, t)
  /\ base' = Append(base, from)
  /\ routerDisposed' = Append(routerDisposed, FALSE)
  /\ UNCHANGED <<front, frontFlags, serverDisposed, appDisposals, disposer>>

(* The two public constructors.                                            *)
Create == NewRouter(<<>>, 0)

CreateWith(route, rec) == NewRouter([k \in {route} |-> rec], 0)

(* ImmutableDictionary.Add: throws when the key is there with another      *)
(* value, and changes nothing when it is there with the same value.        *)
WithRoute(r, route, rec) ==
  /\ route \in DOMAIN table[r] => table[r][route] = rec
  /\ NewRouter([k \in DOMAIN table[r] \cup {route} |->
                  IF k = route THEN rec ELSE table[r][k]], r)

(* The constructors of the fronts: around whatever conduit there is.       *)
Wrap(target, chain, hosted) ==
  /\ RoomLeft
  /\ front' = Append(front, FrontRec(target, chain, hosted))
  /\ frontDisposed' = Append(frontDisposed, FALSE)
  /\ shutDown' = Append(shutDown, FALSE)
  /\ UNCHANGED <<table, base, routerDisposed, serverDisposed, appDisposals, disposer>>

-----------------------------------------------------------------------------
(* Directing calls.  No state changes: the table is immutable.             *)

(* The route looked up: the two methods that take a stream of requests     *)
(* always look up route 0.                                                 *)
RouteOf(m, route) == IF m \in {"UnaryRequest", "ServerStream"} THEN route ELSE 0

(* The server a call reaches; without one it is answered with InvalidOp.   *)
Reached(r, m, route) ==
  LET key == RouteOf(m, route)
  IN  IF key \in DOMAIN table[r] THEN table[r][key].server ELSE Null

-----------------------------------------------------------------------------
(* Disposing.                                                              *)

At(d, place) == disposer[d].pc = place

Move(d, place) == disposer' = [disposer EXCEPT ![d].pc = place]

(* Disposer d calls DisposeAsync of a conduit.  Of what cannot be disposed *)
(* of there is nothing to do.                                              *)
Enter(d, c) ==
  disposer' = [disposer EXCEPT
    ![d].pc = IF c.front # 0 THEN "testFront"
              ELSE IF c.router # 0 THEN "testRouter"
              ELSE IF c.server # Null THEN "testServer"
              ELSE "finished",
    ![d].front  = IF c.front # 0 THEN c.front ELSE @,
    ![d].router = c.router,
    ![d].server = c.server]

(* A thread calls DisposeAsync of a front, a router, or a server it owns.  *)
StartDisposing(d, c) ==
  /\ At(d, "idle")
  /\ Enter(d, c)
  /\ UNCHANGED <<built, flags>>

TestFront(d) ==
  /\ At(d, "testFront")
  /\ Move(d, IF frontDisposed[disposer[d].front] THEN "returned" ELSE "setFront")
  /\ UNCHANGED <<built, flags>>

SetFront(d) ==
  /\ At(d, "setFront")
  /\ frontDisposed' = [frontDisposed EXCEPT ![disposer[d].front] = TRUE]
  /\ Move(d, IF front[disposer[d].front].hosted THEN "shutDown" ELSE "chain")
  /\ UNCHANGED <<built, shutDown, routerDisposed, serverDisposed, appDisposals>>

(* A gRPC server is shut down once; a second time it throws.               *)
ShutDown(d) ==
  /\ At(d, "shutDown")
  /\ shutDown' = [shutDown EXCEPT ![disposer[d].front] = TRUE]
  /\ Move(d, IF shutDown[disposer[d].front] THEN "failed" ELSE "chain")
  /\ UNCHANGED <<built, frontDisposed, routerDisposed, serverDisposed, appDisposals>>

(* Mutant: chainDispose is not looked at.                                  *)
ChainAlways(d) ==
  /\ At(d, "chain")
  /\ Enter(d, front[disposer[d].front].target)
  /\ UNCHANGED <<built, flags>>

(* Mutant: only a conduit that is a server is disposed of.                 *)
ChainToServersOnly(d) ==
  /\ At(d, "chain")
  /\ LET f == front[disposer[d].front]
     IN  Enter(d, IF f.chainDispose /\ f.target.server # Null THEN f.target ELSE Nothing)
  /\ UNCHANGED <<built, flags>>

Chain(d) ==
  /\ At(d, "chain")
  /\ LET f == front[disposer[d].front]
     IN  Enter(d, IF f.chainDispose THEN f.target ELSE Nothing)
  /\ UNCHANGED <<built, flags>>

TestRouter(d) ==
  /\ At(d, "testRouter")
  /\ Move(d, IF routerDisposed[disposer[d].router] THEN "returned" ELSE "setRouter")
  /\ UNCHANGED <<built, flags>>

(* Mutant: ChainDispose is not looked at.                                  *)
ChainedIgnoringFlag(t) == DOMAIN t

(* The routes whose servers the router disposes of.                        *)
Chained(t) == {k \in DOMAIN t : t[k].chainDispose}

SetRouter(d) ==
  /\ At(d, "setRouter")
  /\ LET r == disposer[d].router
     IN  /\ routerDisposed' = [routerDisposed EXCEPT ![r] = TRUE]
         /\ disposer' = [disposer EXCEPT ![d].pc = "walk", ![d].todo = Chained(table[r])]
  /\ UNCHANGED <<built, frontFlags, serverDisposed, appDisposals>>

(* Mutant: the walk does not advance.                                      *)
WalkInPlace(d) ==
  /\ At(d, "walk")
  /\ IF disposer[d].todo = {}
     THEN Move(d, "finished")
     ELSE \E k \in disposer[d].todo :
            disposer' = [disposer EXCEPT
              ![d].pc = "testServer",
              ![d].server = table[disposer[d].router][k].server]
  /\ UNCHANGED <<built, flags>>

(* The next value of the dictionary, in whatever order it lists them.  A   *)
(* thread that was asked to dispose of one server only has nothing to do.  *)
Walk(d) ==
  /\ At(d, "walk")
  /\ IF disposer[d].todo = {}
     THEN Move(d, "finished")
     ELSE \E k \in disposer[d].todo :
            disposer' = [disposer EXCEPT
              ![d].pc = "testServer",
              ![d].todo = @ \ {k},
              ![d].server = table[disposer[d].router][k].server]
  /\ UNCHANGED <<built, flags>>

(* Mutant: a server that is already disposed of ends the walk.             *)
TestServerReturning(d) ==
  /\ At(d, "testServer")
  /\ Move(d, IF serverDisposed[disposer[d].server] THEN "finished" ELSE "setServer")
  /\ UNCHANGED <<built, flags>>

TestServer(d) ==
  /\ At(d, "testServer")
  /\ Move(d, IF serverDisposed[disposer[d].server] THEN "walk" ELSE "setServer")
  /\ UNCHANGED <<built, flags>>

(* Mutant: the flag is not set.                                            *)
SetServerNot(d) ==
  /\ At(d, "setServer")
  /\ Move(d, IF disposer[d].server \in Owning THEN "disposeApp" ELSE "walk")
  /\ UNCHANGED <<built, flags>>

SetServer(d) ==
  /\ At(d, "setServer")
  /\ serverDisposed' = [serverDisposed EXCEPT ![disposer[d].server] = TRUE]
  /\ Move(d, IF disposer[d].server \in Owning THEN "disposeApp" ELSE "walk")
  /\ UNCHANGED <<built, frontFlags, routerDisposed, appDisposals>>

(* The application's DisposeAsync completes, or throws through the loop:   *)
(* the servers that are left are not disposed of, by anybody.              *)
DisposeApp(d) ==
  /\ At(d, "disposeApp")
  /\ appDisposals' = [appDisposals EXCEPT ![disposer[d].server][d] = @ + 1]
  /\ \/ Move(d, "walk")
     \/ Move(d, "failed")
  /\ UNCHANGED <<built, frontFlags, routerDisposed, serverDisposed>>

-----------------------------------------------------------------------------

Conduit ==
  {FrontAt(f) : f \in DOMAIN front} \cup {RouterAt(r) : r \in DOMAIN table}
    \cup {ServerAt(s) : s \in Servers}

Building ==
  \/ Create
  \/ \E route \in Routes, rec \in RouteRec : CreateWith(route, rec)
  \/ \E r \in DOMAIN table, route \in Routes, rec \in RouteRec : WithRoute(r, route, rec)
  \/ \E c \in Conduit \cup {Nothing}, chain, hosted \in BOOLEAN : Wrap(c, chain, hosted)

Disposing(d) ==
  \/ TestFront(d) \/ SetFront(d) \/ ShutDown(d) \/ Chain(d)
  \/ TestRouter(d) \/ SetRouter(d) \/ Walk(d)
  \/ TestServer(d) \/ SetServer(d) \/ DisposeApp(d)

Next ==
  \/ Building
  \/ \E d \in Disposers : \E c \in Conduit : StartDisposing(d, c)
  \/ \E d \in Disposers : Disposing(d)

Spec == Init /\ [][Next]_vars

(* The shutdown of a gRPC server and the DisposeAsync of an application    *)
(* are assumed to come to an end.                                          *)
FairSpec == Spec /\ \A d \in Disposers : WF_vars(Disposing(d))

-----------------------------------------------------------------------------
(* Properties.                                                             *)

ConduitRefs == [front : 0 .. MaxConduits, router : 0 .. MaxConduits,
              server : Servers \cup {Null}]

BuiltOK ==
  /\ table \in Seq(Tables) /\ base \in Seq(0 .. MaxConduits)
  /\ front \in Seq([target : ConduitRefs, chainDispose : BOOLEAN, hosted : BOOLEAN])
  /\ Len(base) = Len(table)

FlagsOK ==
  /\ frontDisposed \in Seq(BOOLEAN) /\ shutDown \in Seq(BOOLEAN)
  /\ routerDisposed \in Seq(BOOLEAN)
  /\ Len(frontDisposed) = Len(front) /\ Len(shutDown) = Len(front)
  /\ Len(routerDisposed) = Len(table)
  /\ serverDisposed \in [Servers -> BOOLEAN]
  /\ appDisposals \in [Servers -> [Disposers -> Nat]]

DisposersOK ==
  /\ disposer \in [Disposers -> [pc : Places, front : 0 .. MaxConduits,
                                 router : 0 .. MaxConduits, todo : SUBSET Routes,
                                 server : Servers \cup {Null}]]
  /\ \A d \in Disposers :
       /\ disposer[d].pc \in {"testFront", "setFront", "shutDown", "chain"} =>
            disposer[d].front \in DOMAIN front
       /\ disposer[d].pc \in {"testRouter", "setRouter"} => disposer[d].router \in DOMAIN table
       /\ disposer[d].pc \in {"testServer", "setServer", "disposeApp"} =>
            disposer[d].server \in Servers

(* Every variable keeps to its domain, every object has its own flag, and  *)
(* a disposer that is at an object knows which one.                        *)
TypeOK == BuiltOK /\ FlagsOK /\ DisposersOK

(* Building on a router never takes a route away or redirects it: a call   *)
(* that a router serves is served by the same server in every router built *)
(* from it.                                                                *)
DerivedKeepsRoutes ==
  \A r \in DOMAIN base : base[r] # 0 =>
    \A k \in DOMAIN table[base[r]] :
      k \in DOMAIN table[r] /\ table[r][k] = table[base[r]][k]

(* Nothing is disposed of but by the thread that was asked to, or through  *)
(* an object that was told to own it: a server by its owner, a router that *)
(* chains to it or a front that does; a router by its owner or a front.    *)
OwnershipRespected ==
  /\ \A s \in Servers : serverDisposed[s] =>
       \/ \E d \in Disposers :
            disposer[d].front = 0 /\ disposer[d].router = 0 /\ disposer[d].server = s
       \/ \E r \in DOMAIN table : routerDisposed[r] /\
            \E k \in DOMAIN table[r] : table[r][k] = [server |-> s, chainDispose |-> TRUE]
       \/ \E f \in DOMAIN front :
            frontDisposed[f] /\ front[f].chainDispose /\ front[f].target = ServerAt(s)
  /\ \A r \in DOMAIN table : routerDisposed[r] =>
       \/ \E d \in Disposers : disposer[d].front = 0 /\ disposer[d].router = r
       \/ \E f \in DOMAIN front :
            frontDisposed[f] /\ front[f].chainDispose /\ front[f].target = RouterAt(r)

(* A disposer that comes to the end of a router's routes leaves none of    *)
(* its chained servers undisposed, also when others dispose of them at the *)
(* same time.                                                              *)
WalkDisposesAll ==
  \A d \in Disposers : At(d, "finished") /\ disposer[d].router # 0 =>
    \A k \in Chained(table[disposer[d].router]) :
      serverDisposed[table[disposer[d].router][k].server]

(* However many routes a server is on, one disposal of a router disposes   *)
(* of the server's application at most once.                               *)
OnceDespiteManyRoutes ==
  \A s \in Servers, d \in Disposers : appDisposals[s][d] <= 1

Disposed(c) ==
  CASE c.front # 0     -> frontDisposed[c.front]
    [] c.router # 0    -> routerDisposed[c.router]
    [] c.server # Null -> serverDisposed[c.server]
    [] OTHER           -> TRUE

(* A thread that finds a flag set returns, and trusts the thread that set  *)
(* it to do the rest.  It may: once no disposal is under way and none has  *)
(* failed, whatever is disposed of has passed its disposal on to all that  *)
(* it owns, down to the application.                                       *)
QuietMeansComplete ==
  (\A d \in Disposers : disposer[d].pc \in {"idle", "returned", "finished"}) =>
    /\ \A f \in DOMAIN front :
         frontDisposed[f] /\ front[f].chainDispose => Disposed(front[f].target)
    /\ \A r \in DOMAIN table : routerDisposed[r] =>
         \A k \in Chained(table[r]) : serverDisposed[table[r][k].server]
    /\ \A s \in Owning : serverDisposed[s] =>
         \E d \in Disposers : appDisposals[s][d] > 0

(* The class comment: a router directs messages to configured servers.  So *)
(* a call on a route that is configured reaches the server of that route.  *)
DirectedAsConfigured ==
  \A r \in DOMAIN table, m \in Methods : \A route \in DOMAIN table[r] :
    Reached(r, m, route) = table[r][route].server

(* Every disposal comes to an end.                                         *)
DisposalEnds ==
  \A d \in Disposers : disposer[d].pc # "idle" ~>
                         disposer[d].pc \in {"returned", "finished", "failed"}

=============================================================================
