-------------------------- MODULE SSHExecute_proofs --------------------------
(***************************************************************************)
(* Proofs about SSHExecute: its types, that a result without an error is   *)
(* the command's whole output, that Execute reads its buffers only when    *)
(* nobody writes them any more, that published details stay, and that only *)
(* a read that failed can spoil them.                                      *)
(***************************************************************************)
EXTENDS SSHExecute, TLAPS

\* The order in which a session comes to its end: first the output, then the
\* exit status, then the copies, then Wait.
Order(s) == /\ s.buf =< s.sent
            /\ s.remote = "ok" => s.sent = Size
            /\ ~s.copying => s.buf = s.sent
                             /\ (s.remote \in {"ok", "failed"} \/ s.chan = "closed")
            /\ s.done # "empty" => ~s.copying /\ s.chan = "closed"
            /\ s.done = "nil" => s.remote = "ok"

SessionOK == /\ pc \notin {"select", "drain"} => session = NoSession
             /\ pc \in {"select", "drain"} => session.chan # "none" /\ Order(session)

IInv == TypeOK /\ SessionOK /\ WholeOnSuccess

-----------------------------------------------------------------------------
LEMMA Constants == /\ Size \in Nat /\ Size > 0 /\ MaxFaults \in Nat
                   /\ MaxInstalls \in Nat /\ MaxInstalls > 0
  BY SizeAssumption, FaultsAssumption, InstallsAssumption

LEMMA EmptyIsText == Empty \in Texts
  BY Constants DEF Empty, Texts

LEMMA NoSessionIsSession == NoSession \in Sessions
  BY Constants DEF NoSession, Sessions

LEMMA PrintedIsText == TypeOK => Printed \in Texts /\ redactSecrets(Printed) \in Texts
  BY DEF TypeOK, Sessions, Printed, redactSecrets, Texts

LEMMA FaultIsCounted == \A f : TypeOK /\ Fault(f) => faults' \in 0..MaxFaults
  BY Constants DEF TypeOK, Fault

\* A call of Execute that ends keeps the invariant if what it hands back
\* without an error is whole.
LEMMA ReturnKeeps ==
    ASSUME IInv, NEW t \in Texts, NEW failed \in BOOLEAN, Return(t, failed),
           UNCHANGED <<ctx, conn, secret, server>>, faults' \in 0..MaxFaults,
           ~failed /\ t # Empty => t.len = Size /\ t.raw
    PROVE  IInv'
<1>1. pc' \in {"session", "publish", "disconnect"} /\ cmd' \in Commands
  BY DEF IInv, TypeOK, Return, Goes, NextCommand, Commands, Reads
<1>2. got' \in [Reads -> Results]
  BY DEF IInv, TypeOK, Return, Results
<1>3. session' = NoSession
  BY DEF Return
<1>4. TypeOK'
  BY <1>1, <1>2, <1>3, NoSessionIsSession DEF IInv, TypeOK
<1>5. SessionOK'
  BY <1>1, <1>3 DEF SessionOK
<1>6. WholeOnSuccess'
  BY DEF IInv, WholeOnSuccess, Return
<1> QED
  BY <1>4, <1>5, <1>6 DEF IInv

\* So does a step of the session that keeps its order.
LEMMA TurnKeeps ==
    ASSUME IInv, NEW s \in Sessions, s.chan # "none", Order(s), Turns(s),
           pc \in {"select", "drain"}, faults' \in 0..MaxFaults
    PROVE  IInv'
<1>1. TypeOK'
  BY DEF IInv, TypeOK, Turns
<1>2. SessionOK'
  BY DEF SessionOK, Turns
<1>3. WholeOnSuccess'
  BY DEF IInv, WholeOnSuccess, Turns
<1> QED
  BY <1>1, <1>2, <1>3 DEF IInv

\* And a step that leaves the session and what was read alone.
LEMMA ElsewhereKeeps ==
    ASSUME IInv, UNCHANGED <<session, got>>, cmd' \in Commands, ctx' \in {"live", "done"},
           pc' \in {"session", "start", "publish", "disconnect", "idle"} \/ pc' = pc,
           pc \notin {"select", "drain"} \/ pc' = pc,
           conn' \in {"none", "up", "silent"}, pc' = "idle" => conn' = "none",
           secret' \in [Details -> Texts], server' \in 1..MaxInstalls, faults' \in 0..MaxFaults
    PROVE  IInv'
<1>1. pc' \notin {"select", "drain"} => session' = NoSession
  BY DEF IInv, SessionOK
<1>2. TypeOK'
  BY <1>1 DEF IInv, TypeOK
<1>3. SessionOK'
  BY <1>1 DEF IInv, SessionOK
<1>4. WholeOnSuccess'
  BY DEF IInv, WholeOnSuccess
<1> QED
  BY <1>2, <1>3, <1>4 DEF IInv

LEMMA Initially == Init => IInv
<1> SUFFICES ASSUME Init PROVE IInv
  OBVIOUS
<1>1. NothingRead \in [Reads -> Results]
  BY EmptyIsText DEF NothingRead, Results
<1>2. TypeOK
  BY <1>1, EmptyIsText, NoSessionIsSession, Constants DEF Init, TypeOK, Commands
<1>3. SessionOK /\ WholeOnSuccess
  BY DEF Init, SessionOK, WholeOnSuccess, NothingRead
<1> QED
  BY <1>2, <1>3 DEF IInv

-----------------------------------------------------------------------------
LEMMA WorkerKeeps == IInv /\ Worker => IInv'
<1> SUFFICES ASSUME IInv, Worker PROVE IInv'
  OBVIOUS
<1> USE DEF IInv
<1>p. Printed \in Texts /\ redactSecrets(Printed) \in Texts /\ Empty \in Texts
  BY PrintedIsText, EmptyIsText
<1>1. CASE Connect
  <2>1. NothingRead \in [Reads -> Results]
    BY EmptyIsText DEF NothingRead, Results
  <2>2. session' = NoSession
    BY <1>1 DEF SessionOK, Connect
  <2>3. TypeOK'
    BY <1>1, <2>1, <2>2 DEF Connect, TypeOK, Commands
  <2>4. SessionOK' /\ WholeOnSuccess'
    BY <1>1, <2>2 DEF Connect, SessionOK, WholeOnSuccess, NothingRead
  <2> QED
    BY <2>3, <2>4
<1>2. CASE Publish
  <2>1. \A d \in Details : got[d].text \in Texts
    BY DEF TypeOK, Results, Details, Reads
  <2>2. secret' \in [Details -> Texts]
    BY <1>2, <2>1 DEF Publish, TypeOK
  <2>3. conn = conn' /\ got' = got /\ session' = session
    BY <1>2 DEF Publish
  <2>4. TypeOK'
    BY <1>2, <2>2, <2>3 DEF Publish, TypeOK
  <2>5. SessionOK' /\ WholeOnSuccess'
    BY <1>2, <2>3 DEF Publish, SessionOK, WholeOnSuccess
  <2> QED
    BY <2>4, <2>5
<1>3. CASE Disconnect
  BY <1>3, ElsewhereKeeps DEF Disconnect, TypeOK
<1>4. CASE OpenSession
  BY <1>4, ElsewhereKeeps DEF OpenSession, TypeOK
<1>5. CASE StartCommand
  <2>1. Started \in Sessions /\ Started.chan = "open" /\ Order(Started)
    <3>1. server \in 0..MaxInstalls /\ 0 \in 0..Size
      BY Constants DEF TypeOK
    <3>2. Started \in Sessions
      BY <3>1 DEF Started, Sessions
    <3> QED
      BY <3>2 DEF Started, Order
  <2>2. TypeOK'
    BY <1>5, <2>1 DEF StartCommand, TypeOK
  <2>3. SessionOK' /\ WholeOnSuccess'
    BY <1>5, <2>1 DEF StartCommand, SessionOK, WholeOnSuccess
  <2> QED
    BY <2>2, <2>3
<1>6. CASE NoAnswer
  BY <1>6, <1>p, ReturnKeeps DEF NoAnswer, TypeOK
<1>7. CASE SelectDone
  <2>1. ~waitErr => Printed.len = Size /\ Printed.raw
    BY <1>7 DEF SelectDone, waitErr, SessionOK, Order, Printed, TypeOK, Sessions
  <2>2. Return(IF waitErr THEN redactSecrets(Printed) ELSE Printed, waitErr)
    BY <1>7 DEF SelectDone
  <2>3. CASE waitErr
    <3>1. Return(redactSecrets(Printed), TRUE)
      BY <2>2, <2>3 DEF Return, Goes, waitErr
    <3> QED
      BY <1>7, <1>p, <3>1, ReturnKeeps DEF SelectDone, TypeOK
  <2>4. CASE ~waitErr
    <3>1. Return(Printed, FALSE)
      BY <2>2, <2>4 DEF Return, Goes, waitErr
    <3> QED
      BY <1>7, <1>p, <2>1, <2>4, <3>1, ReturnKeeps DEF SelectDone, TypeOK
  <2> QED
    BY <2>3, <2>4
<1>8. CASE SelectExpired
  <2> DEFINE s == [session EXCEPT !.chan = IF @ = "open" THEN "closing" ELSE @]
  <2>1. s \in Sessions /\ s.chan # "none" /\ Order(s)
    BY <1>8 DEF SelectExpired, SessionOK, TypeOK, Sessions, Order
  <2>2. TypeOK'
    BY <1>8, <2>1 DEF SelectExpired, TypeOK
  <2>3. SessionOK' /\ WholeOnSuccess'
    BY <1>8, <2>1 DEF SelectExpired, SessionOK, WholeOnSuccess
  <2> QED
    BY <2>2, <2>3
<1>9. CASE Drained
  BY <1>9, <1>p, ReturnKeeps DEF Drained, TypeOK
<1> QED
  BY <1>1, <1>2, <1>3, <1>4, <1>5, <1>6, <1>7, <1>8, <1>9 DEF Worker

LEMMA SessionKeeps ==
    IInv /\ (Goroutines \/ Peer \/ RemoteFails \/ RemoteHangs) => IInv'
<1> SUFFICES ASSUME IInv, Goroutines \/ Peer \/ RemoteFails \/ RemoteHangs PROVE IInv'
  OBVIOUS
<1> USE DEF IInv
<1>a. \/ session = NoSession
      \/ pc \in {"select", "drain"} /\ session.chan # "none" /\ Order(session)
  BY DEF SessionOK
<1>b. session = NoSession => session.chan = "none" /\ ~session.copying
  BY DEF NoSession
<1>1. CASE Copy
  <2> DEFINE s == [session EXCEPT !.buf = @ + 1]
  <2>1. s \in Sessions /\ s.chan # "none" /\ Order(s) /\ pc \in {"select", "drain"}
    BY <1>1, <1>a, <1>b, Constants DEF Copy, TypeOK, Sessions, Order
  <2> QED
    BY <1>1, <2>1, TurnKeeps DEF Copy, TypeOK
<1>2. CASE CopyEnds
  <2> DEFINE s == [session EXCEPT !.copying = FALSE]
  <2>1. s \in Sessions /\ s.chan # "none" /\ Order(s) /\ pc \in {"select", "drain"}
    BY <1>2, <1>a, <1>b DEF CopyEnds, Ended, TypeOK, Sessions, Order
  <2> QED
    BY <1>2, <2>1, TurnKeeps DEF CopyEnds, TypeOK
<1>3. CASE WaitReturns
  <2> DEFINE s == [session EXCEPT !.done = IF session.remote = "ok" THEN "nil" ELSE "error"]
  <2>1. s \in Sessions /\ s.chan # "none" /\ Order(s) /\ pc \in {"select", "drain"}
    BY <1>3, <1>a, <1>b DEF WaitReturns, TypeOK, Sessions, Order
  <2> QED
    BY <1>3, <2>1, TurnKeeps DEF WaitReturns, TypeOK
<1>4. CASE RemoteSends
  <2> DEFINE s == [session EXCEPT !.sent = @ + 1]
  <2>1. s \in Sessions /\ s.chan # "none" /\ Order(s) /\ pc \in {"select", "drain"}
    BY <1>4, <1>a, <1>b, Constants DEF RemoteSends, Talking, TypeOK, Sessions, Order
  <2> QED
    BY <1>4, <2>1, TurnKeeps DEF RemoteSends, TypeOK
<1>5. CASE RemoteExits
  <2> DEFINE s == [session EXCEPT !.remote = "ok"]
  <2>1. s \in Sessions /\ s.chan # "none" /\ Order(s) /\ pc \in {"select", "drain"}
    BY <1>5, <1>a, <1>b DEF RemoteExits, Talking, TypeOK, Sessions, Order
  <2> QED
    BY <1>5, <2>1, TurnKeeps DEF RemoteExits, TypeOK
<1>6. CASE PeerCloses
  <2> DEFINE s == [session EXCEPT !.chan = "closed"]
  <2>1. s \in Sessions /\ s.chan # "none" /\ Order(s) /\ pc \in {"select", "drain"}
    BY <1>6, <1>a, <1>b DEF PeerCloses, Talking, TypeOK, Sessions, Order
  <2> QED
    BY <1>6, <2>1, TurnKeeps DEF PeerCloses, TypeOK
<1>7. CASE RemoteFails
  <2> DEFINE s == [session EXCEPT !.remote = "failed"]
  <2>1. s \in Sessions /\ s.chan # "none" /\ Order(s) /\ pc \in {"select", "drain"}
    BY <1>7, <1>a, <1>b DEF RemoteFails, Talking, TypeOK, Sessions, Order
  <2> QED
    BY <1>7, <2>1, TurnKeeps, FaultIsCounted DEF RemoteFails
<1>8. CASE RemoteHangs
  <2> DEFINE s == [session EXCEPT !.remote = "hung"]
  <2>1. s \in Sessions /\ s.chan # "none" /\ Order(s) /\ pc \in {"select", "drain"}
    BY <1>8, <1>a, <1>b DEF RemoteHangs, Talking, TypeOK, Sessions, Order
  <2> QED
    BY <1>8, <2>1, TurnKeeps, FaultIsCounted DEF RemoteHangs
<1> QED
  BY <1>1, <1>2, <1>3, <1>4, <1>5, <1>6, <1>7, <1>8 DEF Goroutines, Peer

\* The connection is lost under a session or without one.
LEMMA DropsKeep ==
    ASSUME IInv, conn \in {"up", "silent"}, Drops, faults' \in 0..MaxFaults
    PROVE  IInv'
<1> USE DEF IInv
<1>1. pc # "idle" /\ UNCHANGED <<pc, cmd, ctx, got, secret, server>>
  BY DEF TypeOK, Drops
<1>2. CASE pc \in {"select", "drain"}
  <2> DEFINE s == [session EXCEPT !.chan = "closed"]
  <2>1. session' = s
    BY <1>2 DEF Drops, SessionOK, TypeOK, Sessions
  <2>2. s \in Sessions /\ s.chan # "none" /\ Order(s)
    BY <1>2 DEF SessionOK, TypeOK, Sessions, Order
  <2>3. TypeOK'
    BY <1>1, <2>1, <2>2 DEF TypeOK, Drops
  <2>4. SessionOK' /\ WholeOnSuccess'
    BY <1>1, <1>2, <2>1, <2>2 DEF SessionOK, WholeOnSuccess
  <2> QED
    BY <2>3, <2>4
<1>3. CASE pc \notin {"select", "drain"}
  <2>0. session = NoSession /\ NoSession.chan = "none"
    BY <1>3 DEF SessionOK, NoSession
  <2>1. session' = NoSession
    <3>1. session' = [NoSession EXCEPT !.chan = "none"]
      BY <2>0 DEF Drops
    <3> QED
      BY <3>1, Zenon DEF NoSession
  <2>2. TypeOK'
    BY <1>1, <2>1, NoSessionIsSession DEF TypeOK, Drops
  <2>3. SessionOK' /\ WholeOnSuccess'
    BY <1>1, <1>3, <2>1 DEF SessionOK, WholeOnSuccess
  <2> QED
    BY <2>2, <2>3
<1> QED
  BY <1>2, <1>3

LEMMA StepKeeps == IInv /\ [Next]_vars => IInv'
<1> SUFFICES ASSUME IInv, [Next]_vars PROVE IInv'
  OBVIOUS
<1>t. TypeOK
  BY DEF IInv
<1>1. CASE Worker
  BY <1>1, WorkerKeeps
<1>2. CASE Goroutines \/ Peer \/ RemoteFails \/ RemoteHangs
  BY <1>2, SessionKeeps
<1>3. CASE Refused
  BY <1>3, <1>t, EmptyIsText, ReturnKeeps, FaultIsCounted DEF Refused
<1>4. CASE GoesSilent
  BY <1>4, <1>t, ElsewhereKeeps, FaultIsCounted DEF GoesSilent, TypeOK
<1>5. CASE ConnectionLost
  BY <1>5, <1>t, DropsKeep, FaultIsCounted DEF ConnectionLost
<1>6. CASE TransportGivesUp
  BY <1>6, <1>t, DropsKeep DEF TransportGivesUp, TypeOK
<1>7. CASE ExpiresEarly \/ ExpiresWaiting
  <2>1. faults' \in 0..MaxFaults
    BY <1>7, <1>t, FaultIsCounted DEF ExpiresEarly, ExpiresWaiting, TypeOK
  <2>2. TypeOK'
    BY <1>7, <1>t, <2>1 DEF ExpiresEarly, ExpiresWaiting, Expires, TypeOK
  <2>3. SessionOK' /\ WholeOnSuccess'
    BY <1>7 DEF ExpiresEarly, ExpiresWaiting, Expires, IInv, SessionOK, WholeOnSuccess
  <2> QED
    BY <2>2, <2>3 DEF IInv
<1>8. CASE Reinstalled
  <2>1. server' \in 1..MaxInstalls
    BY <1>8, <1>t, Constants DEF Reinstalled, TypeOK
  <2>2. TypeOK'
    BY <1>8, <1>t, <2>1 DEF Reinstalled, TypeOK
  <2>3. SessionOK' /\ WholeOnSuccess'
    BY <1>8 DEF Reinstalled, IInv, SessionOK, WholeOnSuccess
  <2> QED
    BY <2>2, <2>3 DEF IInv
<1>9. CASE Crash
  <2>1. faults' \in 0..MaxFaults
    BY <1>9, <1>t, FaultIsCounted DEF Crash
  <2>2. TypeOK'
    BY <1>9, <1>t, <2>1, NoSessionIsSession DEF Crash, TypeOK
  <2>3. SessionOK' /\ WholeOnSuccess'
    BY <1>9 DEF Crash, IInv, SessionOK, WholeOnSuccess
  <2> QED
    BY <2>2, <2>3 DEF IInv
<1>10. CASE UNCHANGED vars
  <2>1. TypeOK'
    BY <1>10, <1>t DEF vars, TypeOK
  <2>2. SessionOK' /\ WholeOnSuccess'
    BY <1>10 DEF vars, IInv, SessionOK, WholeOnSuccess
  <2> QED
    BY <2>1, <2>2 DEF IInv
<1> QED
  BY <1>1, <1>2, <1>3, <1>4, <1>5, <1>6, <1>7, <1>8, <1>9, <1>10 DEF Next

\* IInv is inductive (client.go:125-166).
THEOREM ExecuteInvariant == Spec => []IInv
<1>1. IInv /\ [Next]_vars => IInv'
  BY StepKeeps
<1> QED
  BY Initially, <1>1, PTL DEF Spec

\* The variables keep their types, and no connection outlives its reconcile
\* (client.go:181, Disconnect).
THEOREM ExecuteTypes == Spec => []TypeOK
<1>1. IInv => TypeOK
  BY DEF IInv
<1> QED
  BY ExecuteInvariant, <1>1, PTL

\* Whatever is lost, killed or expires: a result without an error is the
\* command's whole output as it was printed (client.go:161-165).
THEOREM SuccessIsWhole == Spec => []WholeOnSuccess
<1>1. IInv => WholeOnSuccess
  BY DEF IInv
<1> QED
  BY ExecuteInvariant, <1>1, PTL

\* Execute reads stdoutBuf only after the copies and Wait have ended, on
\* either branch of its select (client.go:144-151).
THEOREM ReadsAreQuiet == Spec => BuffersAreQuiet
<1> DEFINE Quiet == \/ pc \notin {"select", "drain"}
                    \/ pc' \in {"select", "drain", "idle"}
                    \/ /\ ~session.copying /\ session.buf = session.sent
                       /\ session.done # "empty"
<1>1. IInv /\ [Next]_vars => [Quiet]_vars
  <2> SUFFICES ASSUME IInv, Next, pc \in {"select", "drain"},
                      pc' \notin {"select", "drain", "idle"}
               PROVE  ~session.copying /\ session.buf = session.sent /\ session.done # "empty"
    OBVIOUS
  <2>1. SelectDone \/ Drained
    BY DEF Next, Worker, Connect, Publish, Disconnect, OpenSession, StartCommand, NoAnswer,
           SelectExpired, Goroutines, Copy, CopyEnds, WaitReturns, Peer, RemoteSends,
           RemoteExits, PeerCloses, Refused, RemoteFails, RemoteHangs, GoesSilent,
           ConnectionLost, TransportGivesUp, Drops, ExpiresEarly, ExpiresWaiting, Expires,
           Reinstalled, Crash, Turns
  <2>2. session.done # "empty"
    BY <2>1 DEF SelectDone, Drained
  <2> QED
    BY <2>2 DEF IInv, SessionOK, Order
<1> QED
  BY ExecuteInvariant, <1>1, PTL DEF Spec, BuffersAreQuiet

\* Nobody else writes the connection secret.
LEMMA SecretsArePublished == [Next]_vars /\ secret' # secret => Publish
BY DEF Next, vars, Worker, Connect, Disconnect, OpenSession, StartCommand, NoAnswer,
       SelectDone, SelectExpired, Drained, Goroutines, Copy, CopyEnds, WaitReturns, Peer,
       RemoteSends, RemoteExits, PeerCloses, Refused, RemoteFails, RemoteHangs,
       GoesSilent, ConnectionLost, TransportGivesUp, Drops, ExpiresEarly,
       ExpiresWaiting, Expires, Reinstalled, Crash, Turns

\* Only a text that is not empty is published, and it replaces one key of the
\* secret: no pass, whatever it failed to read, takes a detail away
\* (cluster.go:331-347).
THEOREM DetailsStay == Spec => DetailsAreKept
<1> DEFINE Kept == \A d \in Details : secret[d] # Empty => secret'[d] # Empty
<1>1. [Next]_vars => [Kept]_vars
  <2> SUFFICES ASSUME Next, NEW d \in Details, secret[d] # Empty PROVE secret'[d] # Empty
    OBVIOUS
  <2>1. CASE Publish
    <3>1. got[d].text # Empty \/ d \notin connDetails
      BY DEF connDetails, Empty
    <3> QED
      BY <2>1, <3>1 DEF Publish
  <2>2. CASE ~Publish
    <3>1. secret' = secret
      BY <2>2, SecretsArePublished
    <3> QED
      BY <3>1
  <2> QED
    BY <2>1, <2>2
<1> QED
  BY <1>1, PTL DEF Spec, DetailsAreKept

\* What run details_redacted shows has one cause alone: Observe publishes a text
\* that is cut short or redacted only from a read that returned an error with it
\* (cluster.go:250-255, 331-347).  From one without, it publishes what is right.
THEOREM OnlyErrorsSpoilDetails ==
    Spec => [][\A d \in Details : secret'[d] # secret[d] /\ ~got[d].err
                  => secret'[d].len = Size /\ secret'[d].raw]_vars
<1> DEFINE Genuine == \A d \in Details : secret'[d] # secret[d] /\ ~got[d].err
                        => secret'[d].len = Size /\ secret'[d].raw
<1>1. IInv /\ [Next]_vars => [Genuine]_vars
  <2> SUFFICES ASSUME IInv, Next, NEW d \in Details, secret'[d] # secret[d], ~got[d].err
               PROVE  secret'[d].len = Size /\ secret'[d].raw
    OBVIOUS
  <2>1. Publish
    BY SecretsArePublished
  <2>2. secret'[d] = got[d].text /\ got[d].text.len > 0
    BY <2>1 DEF Publish, connDetails
  <2>3. got[d].text # Empty
    BY <2>2 DEF Empty
  <2> QED
    BY <2>2, <2>3 DEF IInv, WholeOnSuccess, Reads, Details
<1> QED
  BY ExecuteInvariant, <1>1, PTL DEF Spec
=============================================================================
