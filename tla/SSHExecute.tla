----------------------------- MODULE SSHExecute -----------------------------
(***************************************************************************)
(* internal/clients/ssh: Execute runs a command over a session, collects   *)
(* what it prints through a copy goroutine, and returns when the command   *)
(* has ended or its context has.  The caller is an Observe of the Cluster  *)
(* controller: four calls over one connection, whose answers become the    *)
(* connection details that Nodes join with.                                *)
(*                                                                         *)
(* Simplifications:                                                        *)
(*  - output is Size pieces of standard output; standard error, which is   *)
(*    handled alike and read by nobody here, is left out.                  *)
(*  - the exit status arrives after the output.                            *)
(*  - a Connect that fails changes nothing, and is no step.                *)
(*  - the unit is there: without one Observe ends after the probe.         *)
(***************************************************************************)
EXTENDS Integers

CONSTANTS
    Size,          \* the pieces a command's output arrives in
    Faults,        \* what may go wrong, see AllFaults
    MaxFaults,
    MaxInstalls    \* how often k3s is installed on the machine

AllFaults == {"refuse", "exit", "hang", "silent", "lost", "expire", "crash"}

ASSUME SizeAssumption == Size \in Nat \ {0}
ASSUME FaultsAssumption == Faults \subseteq AllFaults /\ MaxFaults \in Nat
ASSUME InstallsAssumption == MaxInstalls \in Nat \ {0}

VARIABLES
    pc,        \* where the worker is in Observe and in Execute
    cmd,       \* the command Execute was called with
    ctx,       \* its context: "live" or "done"
    conn,      \* the connection; "silent": nothing gets through, nobody knows
    session,   \* the session, its command and its two goroutines
    got,       \* what Observe holds of the commands it read something with
    secret,    \* the connection secret
    server,    \* which installation of k3s the machine runs
    faults

vars == <<pc, cmd, ctx, conn, session, got, secret, server, faults>>

Reads == {"version", "token", "kubeconfig"}
Details == {"token", "kubeconfig"}
Commands == Reads \cup {"probe"}

\* Text a command printed: on which installation, how many pieces, and whether
\* as it was printed.
Texts == [of : 0..MaxInstalls, len : 0..Size, raw : BOOLEAN]
Results == [text : Texts, err : BOOLEAN]
Empty == [of |-> 0, len |-> 0, raw |-> TRUE]
NothingRead == [c \in Reads |-> [text |-> Empty, err |-> FALSE]]

\* remote is the command as far as the peer has told; sent what has arrived.
Sessions == [chan    : {"none", "open", "closing", "closed"},
             remote  : {"running", "hung", "ok", "failed"},
             of      : 0..MaxInstalls,
             sent    : 0..Size,
             buf     : 0..Size,                   \* stdoutBuf
             copying : BOOLEAN,                   \* the session's copy goroutine
             done    : {"empty", "nil", "error"}] \* the channel done

NoSession == [chan |-> "none", remote |-> "running", of |-> 0, sent |-> 0, buf |-> 0,
              copying |-> FALSE, done |-> "empty"]

Started == [chan |-> "open", remote |-> "running", of |-> server, sent |-> 0, buf |-> 0,
            copying |-> TRUE, done |-> "empty"]

Init == /\ pc = "idle" /\ cmd = "probe" /\ ctx = "live" /\ conn = "none"
        /\ session = NoSession /\ got = NothingRead
        /\ secret = [d \in Details |-> Empty]
        /\ server = 1 /\ faults = 0

Fault(f) == f \in Faults /\ faults < MaxFaults /\ faults' = faults + 1

-----------------------------------------------------------------------------
(* Observe.                                                                *)

Connect == /\ pc = "idle" /\ pc' = "session" /\ cmd' = "probe"
           /\ ctx' = "live" /\ conn' = "up" /\ got' = NothingRead
           /\ UNCHANGED <<session, secret, server, faults>>

NextCommand == [probe |-> "version", version |-> "token", token |-> "kubeconfig"]

\* Only the probe's error ends Observe; of the others it looks at the text.
Goes(failed) ==
    IF cmd = "probe" /\ failed THEN pc' = "disconnect" /\ cmd' = cmd
    ELSE IF cmd = "kubeconfig" THEN pc' = "publish" /\ cmd' = cmd
    ELSE pc' = "session" /\ cmd' = NextCommand[cmd]

Return(t, failed) ==
    /\ got' = [c \in Reads |-> IF c = cmd THEN [text |-> t, err |-> failed] ELSE got[c]]
    /\ Goes(failed) /\ session' = NoSession

\* Mutant: empty values are details like any other.
connDetailsAll == Details

\* The keys of the payload.
connDetails == {d \in Details : got[d].text.len > 0}

\* Mutant: a secret that has been published once is left alone.
PublishOnce ==
    /\ pc = "publish" /\ pc' = "disconnect"
    /\ secret' = [d \in Details |-> IF d \in connDetails /\ secret[d] = Empty
                                    THEN got[d].text ELSE secret[d]]
    /\ UNCHANGED <<cmd, ctx, conn, session, got, server, faults>>

\* The reconciler publishes under a context of its own, and with a patch:
\* keys the payload lacks stay as they were.
Publish ==
    /\ pc = "publish" /\ pc' = "disconnect"
    /\ secret' = [d \in Details |-> IF d \in connDetails THEN got[d].text ELSE secret[d]]
    /\ UNCHANGED <<cmd, ctx, conn, session, got, server, faults>>

\* Mutant: the connection stays open.
DisconnectLeaking == /\ pc = "disconnect" /\ pc' = "idle"
                     /\ UNCHANGED <<cmd, ctx, conn, session, got, secret, server, faults>>

Disconnect == /\ pc = "disconnect" /\ pc' = "idle" /\ conn' = "none"
              /\ UNCHANGED <<cmd, ctx, session, got, secret, server, faults>>

-----------------------------------------------------------------------------
(* Execute.                                                                *)

\* NewSession and Start wait for the peer's answer; neither looks at ctx.
OpenSession == /\ pc = "session" /\ conn = "up" /\ pc' = "start"
               /\ UNCHANGED <<cmd, ctx, conn, session, got, secret, server, faults>>

StartCommand == /\ pc = "start" /\ conn = "up" /\ pc' = "select"
                /\ session' = Started
                /\ UNCHANGED <<cmd, ctx, conn, got, secret, server, faults>>

NoAnswer == /\ pc \in {"session", "start"} /\ conn = "lost"
            /\ Return(Empty, TRUE)
            /\ UNCHANGED <<ctx, conn, secret, server, faults>>

Refused == /\ pc \in {"session", "start"} /\ conn = "up" /\ Fault("refuse")
           /\ Return(Empty, TRUE)
           /\ UNCHANGED <<ctx, conn, secret, server>>

Printed == [of |-> session.of, len |-> session.buf, raw |-> TRUE]

\* A whole token is recognised and replaced.  A kubeconfig holds its keys
\* encoded, which no pattern matches, and neither does the start of a token.
redactSecrets(t) == IF cmd = "token" /\ t.len = Size THEN [t EXCEPT !.raw = FALSE] ELSE t

\* Mutant: the error the channel delivers is not looked at.
waitErrIgnored == FALSE

waitErr == session.done = "error"

SelectDone == /\ pc = "select" /\ session.done # "empty"
              /\ Return(IF waitErr THEN redactSecrets(Printed) ELSE Printed, waitErr)
              /\ UNCHANGED <<ctx, conn, secret, server, faults>>

\* Mutant: the expired context only changes what is waited for.
SelectExpiredNoClose ==
    /\ pc = "select" /\ ctx = "done" /\ pc' = "drain"
    /\ UNCHANGED <<cmd, ctx, conn, session, got, secret, server, faults>>

\* Close sends a message; the session ends when the peer has answered it.
SelectExpired ==
    /\ pc = "select" /\ ctx = "done" /\ pc' = "drain"
    /\ session' = [session EXCEPT !.chan = IF @ = "open" THEN "closing" ELSE @]
    /\ UNCHANGED <<cmd, ctx, conn, got, secret, server, faults>>

\* Mutant: the buffers are read without waiting for <-done.
DrainedAtOnce == /\ pc = "drain" /\ Return(redactSecrets(Printed), TRUE)
                 /\ UNCHANGED <<ctx, conn, secret, server, faults>>

Drained == /\ pc = "drain" /\ session.done # "empty"
           /\ Return(redactSecrets(Printed), TRUE)
           /\ UNCHANGED <<ctx, conn, secret, server, faults>>

Worker == \/ Connect \/ Publish \/ Disconnect
          \/ OpenSession \/ StartCommand \/ NoAnswer \/ SelectDone \/ SelectExpired \/ Drained

-----------------------------------------------------------------------------
(* The session's goroutines.                                               *)

Turns(s) == session' = s /\ UNCHANGED <<pc, cmd, ctx, conn, got, secret, server>>

Ended == session.remote \in {"ok", "failed"} \/ session.chan = "closed"

Copy == /\ session.copying /\ session.buf < session.sent
        /\ Turns([session EXCEPT !.buf = @ + 1]) /\ UNCHANGED faults

CopyEnds == /\ session.copying /\ session.buf = session.sent /\ Ended
            /\ Turns([session EXCEPT !.copying = FALSE]) /\ UNCHANGED faults

\* done <- session.Wait(), which waits for the channel's end and the copies'.
WaitReturns ==
    /\ session.chan = "closed" /\ ~session.copying /\ session.done = "empty"
    /\ Turns([session EXCEPT !.done = IF session.remote = "ok" THEN "nil" ELSE "error"])
    /\ UNCHANGED faults

Goroutines == Copy \/ CopyEnds \/ WaitReturns

-----------------------------------------------------------------------------
(* The machine, the network and the clock.                                 *)

Talking == conn = "up" /\ session.chan \in {"open", "closing"}

RemoteSends == /\ Talking /\ session.remote = "running" /\ session.sent < Size
               /\ Turns([session EXCEPT !.sent = @ + 1]) /\ UNCHANGED faults

RemoteExits == /\ Talking /\ session.remote = "running" /\ session.sent = Size
               /\ Turns([session EXCEPT !.remote = "ok"]) /\ UNCHANGED faults

PeerCloses == /\ Talking
              /\ session.remote \in {"ok", "failed"} \/ session.chan = "closing"
              /\ Turns([session EXCEPT !.chan = "closed"]) /\ UNCHANGED faults

Peer == RemoteSends \/ RemoteExits \/ PeerCloses

\* Killed, or there is no such file: the command fails after some output.
RemoteFails == /\ Talking /\ session.remote = "running" /\ Fault("exit")
               /\ Turns([session EXCEPT !.remote = "failed"])

RemoteHangs == /\ Talking /\ session.remote = "running" /\ Fault("hang")
               /\ Turns([session EXCEPT !.remote = "hung"])

GoesSilent == /\ conn = "up" /\ Fault("silent") /\ conn' = "silent"
              /\ UNCHANGED <<pc, cmd, ctx, session, got, secret, server>>

Drops == /\ conn' = "lost"
         /\ session' = [session EXCEPT !.chan = IF @ = "none" THEN @ ELSE "closed"]
         /\ UNCHANGED <<pc, cmd, ctx, got, secret, server>>

ConnectionLost == conn = "up" /\ Fault("lost") /\ Drops

\* Keepalives and retransmissions of the operating system run out.
TransportGivesUp == conn = "silent" /\ Drops /\ UNCHANGED faults

Expires == /\ pc # "idle" /\ ctx = "live" /\ ctx' = "done"
           /\ UNCHANGED <<pc, cmd, conn, session, got, secret, server>>

\* Earlier steps, or this one, took long.
ExpiresEarly == Expires /\ Fault("expire")

\* Nothing is heard for as long as it takes.
ExpiresWaiting == /\ conn = "silent" \/ session.remote = "hung"
                  /\ Expires /\ UNCHANGED faults

\* The server is removed and installed anew, with a token of its own.
Reinstalled == /\ server < MaxInstalls /\ server' = server + 1
               /\ UNCHANGED <<pc, cmd, ctx, conn, session, got, secret, faults>>

Crash == /\ pc # "idle" /\ Fault("crash")
         /\ pc' = "idle" /\ conn' = "none" /\ session' = NoSession
         /\ UNCHANGED <<cmd, ctx, got, secret, server>>

Next == \/ Worker \/ Goroutines \/ Peer
        \/ Refused \/ RemoteFails \/ RemoteHangs \/ GoesSilent \/ ConnectionLost
        \/ TransportGivesUp \/ ExpiresEarly \/ ExpiresWaiting \/ Reinstalled \/ Crash

\* Goroutines run, an sshd that is reachable answers, dead connections are
\* found out and contexts expire.  No command has to end.
Fairness == /\ WF_vars(Worker) /\ WF_vars(Goroutines) /\ WF_vars(Peer)
            /\ WF_vars(TransportGivesUp) /\ WF_vars(ExpiresWaiting)

Spec == Init /\ [][Next]_vars
LiveSpec == Spec /\ Fairness

-----------------------------------------------------------------------------
\* Types; and between reconciles no connection is left open.
TypeOK == /\ pc \in {"idle", "session", "start", "select", "drain", "publish", "disconnect"}
          /\ cmd \in Commands /\ ctx \in {"live", "done"}
          /\ conn \in {"none", "up", "silent", "lost"}
          /\ session \in Sessions
          /\ got \in [Reads -> Results]
          /\ secret \in [Details -> Texts]
          /\ server \in 1..MaxInstalls /\ faults \in 0..MaxFaults
          /\ pc = "idle" => conn = "none" /\ session = NoSession

\* A call that returned no error handed back everything the command printed,
\* unaltered: whatever the goroutines were doing when the select chose.
WholeOnSuccess ==
    \A c \in Reads : ~got[c].err /\ got[c].text # Empty
                       => got[c].text.len = Size /\ got[c].text.raw

\* Execute never returns, reading the buffers, while a goroutine of its
\* session still writes them or would find nobody to report to.
BuffersAreQuiet ==
    [][\/ pc \notin {"select", "drain"}
       \/ pc' \in {"select", "drain", "idle"}
       \/ /\ ~session.copying /\ session.buf = session.sent
          /\ session.done # "empty"]_vars

\* A call ends though its command never does and though the machine is gone.
ExecuteReturns == pc \in {"session", "start", "select", "drain"}
                    ~> pc \in {"publish", "disconnect", "idle"}

\* A pass that could not read a detail leaves the published one alone.
DetailsAreKept == [][\A d \in Details : secret[d] # Empty => secret'[d] # Empty]_vars

\* Once nothing goes wrong any more, the secret holds the details of the
\* installation the machine runs, whatever failed passes left in it.
DetailsCatchUp == <>[](\A d \in Details : secret[d] = [of |-> server, len |-> Size, raw |-> TRUE])

\* The details are whichever of kubeconfig and node-token were actually
\* readable (cluster.go:331): nothing else is published under their names.
GenuineDetails == \A d \in Details : secret[d] # Empty => secret[d].len = Size /\ secret[d].raw
=============================================================================
