----------------------------- MODULE SharedRuntime -----------------------------
(***************************************************************************)
(* SharedCopilotRuntime: one Copilot CLI for all chat turns of a window,   *)
(* and for each turn a recorder run, an SDK session and a usage capture.   *)
(* The sessions of UsageCapture are the turns.                             *)
(*                                                                         *)
(* A request of a turn is one step that ends in an answer, or in a failure *)
(* that leaves open whether it took effect.  One task is recorded per turn.*)
(***************************************************************************)
EXTENDS UsageCapture

Turns == Sessions

VARIABLES at,         \* where a turn stands in handle
          cancelled,  \* its AbortController has fired
          run,        \* its run at the recorder: "none", "open" or "ended"
          runKnown,   \* `run` is set
          task,       \* its task at the recorder: "none", "open" or "closed"
          taskKnown,  \* `task` is set
          session,    \* "none", "open" or "closed"
          client,     \* clientPromise: "none", "pending" or "ready"
          processes,  \* Copilot CLI processes: starting, and running
          disposal    \* "no", "waiting" or "done"

turnVars == <<at, cancelled, run, runKnown, task, taskKnown, session>>
clientVars == <<client, processes, disposal>>
vars == <<captureVars, turnVars, clientVars>>

Places == {"idle", "creating", "starting", "client", "waiting", "attaching", "sending",
           "detaching", "closing", "ending", "reporting", "abandoning", "releasing",
           "draining", "ok", "failed"}

Over == {"ok", "failed"}

Init ==
    /\ CaptureInit
    /\ at = [t \in Turns |-> "idle"]
    /\ cancelled = [t \in Turns |-> FALSE]
    /\ run = [t \in Turns |-> "none"]
    /\ runKnown = [t \in Turns |-> FALSE]
    /\ task = [t \in Turns |-> "none"]
    /\ taskKnown = [t \in Turns |-> FALSE]
    /\ session = [t \in Turns |-> "none"]
    /\ client = "none"
    /\ processes = [starting |-> 0, running |-> 0]
    /\ disposal = "no"

At(t, place) == at[t] = place

Goto(t, place) == at' = [at EXCEPT ![t] = place]

\* The catch block reports only to a run the turn knows of.
Catch(t) == Goto(t, IF runKnown[t] THEN "reporting" ELSE "releasing")

Same(which) == UNCHANGED <<captureVars, which>>

-----------------------------------------------------------------------------
(* The turn, up to the model's reply.                                      *)

Begin(t) ==
    /\ At(t, "idle")
    /\ disposal = "no"
    /\ Goto(t, "creating")
    /\ UNCHANGED <<captureVars, clientVars, cancelled, run, runKnown, task, taskKnown, session>>

CreateRun(t) ==
    /\ At(t, "creating")
    /\ \/ /\ ~ cancelled[t]
          /\ run' = [run EXCEPT ![t] = "open"]
          /\ runKnown' = [runKnown EXCEPT ![t] = TRUE]
          /\ Goto(t, "starting")
       \/ /\ \E effect \in {"none", "open"} : run' = [run EXCEPT ![t] = effect]
          /\ Catch(t)
          /\ UNCHANGED runKnown
    /\ UNCHANGED <<captureVars, clientVars, cancelled, task, taskKnown, session>>

StartTask(t) ==
    /\ At(t, "starting")
    /\ \/ /\ ~ cancelled[t]
          /\ task' = [task EXCEPT ![t] = "open"]
          /\ taskKnown' = [taskKnown EXCEPT ![t] = TRUE]
          /\ Goto(t, "client")
       \/ /\ \E effect \in {"none", "open"} : task' = [task EXCEPT ![t] = effect]
          /\ Catch(t)
          /\ UNCHANGED taskKnown
    /\ UNCHANGED <<captureVars, clientVars, cancelled, run, runKnown, session>>

\* Mutant of GetClient: a stopped runtime starts its CLI again.
GetClientAnyway(t) ==
    /\ At(t, "client")
    /\ ~ cancelled[t]
    /\ IF client = "none"
       THEN client' = "pending" /\ processes' = [processes EXCEPT !.starting = @ + 1]
       ELSE UNCHANGED <<client, processes>>
    /\ Goto(t, "waiting")
    /\ UNCHANGED <<captureVars, disposal, cancelled, run, runKnown, task, taskKnown, session>>

\* client(): the turns of a window share one promise of one CLI.
GetClient(t) ==
    /\ At(t, "client")
    /\ IF cancelled[t] \/ disposal # "no"
       THEN Catch(t) /\ UNCHANGED <<client, processes>>
       ELSE /\ IF client = "none"
               THEN client' = "pending" /\ processes' = [processes EXCEPT !.starting = @ + 1]
               ELSE UNCHANGED <<client, processes>>
            /\ Goto(t, "waiting")
    /\ UNCHANGED <<captureVars, disposal, cancelled, run, runKnown, task, taskKnown, session>>

\* The CLI answered client.start(); createSession succeeds or fails.
OpenSession(t) ==
    /\ At(t, "waiting")
    /\ processes.starting = 0
    /\ \/ /\ ~ cancelled[t]
          /\ processes.running > 0
          /\ session' = [session EXCEPT ![t] = "open"]
          /\ Goto(t, "attaching")
       \/ Catch(t) /\ UNCHANGED session
    /\ UNCHANGED <<captureVars, clientVars, cancelled, run, runKnown, task, taskKnown>>

AttachUsage(t) ==
    /\ At(t, "attaching")
    /\ \/ ~ cancelled[t] /\ Attach(t) /\ Goto(t, "sending")
       \/ Catch(t) /\ UNCHANGED captureVars
    /\ UNCHANGED <<clientVars, cancelled, run, runKnown, task, taskKnown, session>>

\* sendAndWait returned content, and stream took it: detach begins.
Reply(t) ==
    /\ At(t, "sending")
    /\ ~ cancelled[t]
    /\ Stop(t)
    /\ Goto(t, "detaching")
    /\ UNCHANGED <<clientVars, cancelled, run, runKnown, task, taskKnown, session>>

\* No answer, an empty one, or a stream that is gone.
ReplyFails(t) ==
    /\ At(t, "sending")
    /\ ~ cancelled[t]
    /\ Catch(t)
    /\ UNCHANGED <<captureVars, clientVars, cancelled, run, runKnown, task, taskKnown, session>>

Interrupt(t) ==
    /\ At(t, "sending")
    /\ cancelled[t]
    /\ Catch(t)
    /\ UNCHANGED <<captureVars, clientVars, cancelled, run, runKnown, task, taskKnown, session>>

-----------------------------------------------------------------------------
(* The end of a turn that got its reply.                                   *)

Detached(t) ==
    /\ At(t, "detaching")
    /\ \/ DetachFulfils(t) /\ Goto(t, "closing")
       \/ DetachRejects(t) /\ Catch(t)
    /\ UNCHANGED <<captureVars, clientVars, cancelled, run, runKnown, task, taskKnown, session>>

CloseTask(t) ==
    /\ At(t, "closing")
    /\ \/ task' = [task EXCEPT ![t] = "closed"] /\ Goto(t, "ending")
       \/ /\ \E effect \in {task[t], "closed"} : task' = [task EXCEPT ![t] = effect]
          /\ Catch(t)
    /\ UNCHANGED <<captureVars, clientVars, cancelled, run, runKnown, taskKnown, session>>

\* The session is disconnected in finally; there is no capture left.
EndRun(t) ==
    /\ At(t, "ending")
    /\ \/ /\ run' = [run EXCEPT ![t] = "ended"]
          /\ session' = [session EXCEPT ![t] = "closed"]
          /\ Goto(t, "ok")
       \/ /\ \E effect \in {run[t], "ended"} : run' = [run EXCEPT ![t] = effect]
          /\ Catch(t)
          /\ UNCHANGED session
    /\ UNCHANGED <<captureVars, clientVars, cancelled, runKnown, task, taskKnown>>

-----------------------------------------------------------------------------
(* catch and finally.                                                      *)

\* Mutant of ReportFailure: the failure event does not close the task.
ReportFailureOnly(t) ==
    /\ At(t, "reporting")
    /\ run[t] = "open" /\ Goto(t, "abandoning")
    /\ UNCHANGED <<captureVars, clientVars, cancelled, run, runKnown, task, taskKnown, session>>

\* The failure event closes the task the turn knows of; an ended run refuses it.
ReportFailure(t) ==
    LET closed == IF taskKnown[t] THEN "closed" ELSE task[t]
    IN /\ At(t, "reporting")
       /\ \/ /\ run[t] = "open"
             /\ task' = [task EXCEPT ![t] = closed]
             /\ Goto(t, "abandoning")
          \/ /\ \E effect \in {task[t]} \cup {closed : r \in {run[t]} \cap {"open"}} :
                   task' = [task EXCEPT ![t] = effect]
             /\ Goto(t, "releasing")
       /\ UNCHANGED <<captureVars, clientVars, cancelled, run, runKnown, taskKnown, session>>

\* The run is completed before the capture is detached.
AbandonRun(t) ==
    /\ At(t, "abandoning")
    /\ \E effect \in {run[t], "ended"} : run' = [run EXCEPT ![t] = effect]
    /\ Goto(t, "releasing")
    /\ UNCHANGED <<captureVars, clientVars, cancelled, runKnown, task, taskKnown, session>>

Release(t) ==
    /\ At(t, "releasing")
    /\ IF capture[t] = "none" THEN UNCHANGED captureVars ELSE Stop(t)
    /\ Goto(t, "draining")
    /\ UNCHANGED <<clientVars, cancelled, run, runKnown, task, taskKnown, session>>

Disconnect(t) ==
    /\ At(t, "draining")
    /\ Flushed(t)
    /\ session' = [session EXCEPT ![t] = IF @ = "open" THEN "closed" ELSE @]
    /\ Goto(t, "failed")
    /\ UNCHANGED <<captureVars, clientVars, cancelled, run, runKnown, task, taskKnown>>

\* The user stops the turn.
Cancel(t) ==
    /\ at[t] \notin Over \cup {"idle"}
    /\ cancelled' = [cancelled EXCEPT ![t] = TRUE]
    /\ UNCHANGED <<captureVars, clientVars, at, run, runKnown, task, taskKnown, session>>

-----------------------------------------------------------------------------
(* The Copilot CLI of the window.                                          *)

ClientStarts ==
    /\ processes.starting > 0
    /\ processes' = [starting |-> processes.starting - 1, running |-> processes.running + 1]
    /\ client' = IF client = "pending" THEN "ready" ELSE client
    /\ UNCHANGED <<captureVars, turnVars, disposal>>

\* client.start() throws: every turn that waits fails, the next one tries again.
ClientFails ==
    /\ processes.starting > 0
    /\ processes' = [processes EXCEPT !.starting = @ - 1]
    /\ client' = "none"
    /\ at' = [t \in Turns |-> IF at[t] # "waiting" THEN at[t]
                              ELSE IF runKnown[t] THEN "reporting" ELSE "releasing"]
    /\ UNCHANGED <<captureVars, disposal, cancelled, run, runKnown, task, taskKnown, session>>

Dispose ==
    /\ disposal = "no"
    /\ disposal' = IF client = "none" THEN "done" ELSE "waiting"
    /\ client' = "none"
    /\ UNCHANGED <<captureVars, turnVars, processes>>

\* Mutant of StopClient: dispose does not wait for a CLI that is starting.
StopReadyClient ==
    /\ disposal = "waiting"
    /\ processes' = [processes EXCEPT !.running = 0]
    /\ disposal' = "done"
    /\ UNCHANGED <<captureVars, turnVars, client>>

\* stop() of the client that dispose took, once that has started.
StopClient ==
    /\ disposal = "waiting"
    /\ processes.starting = 0
    /\ processes' = [processes EXCEPT !.running = 0]
    /\ disposal' = "done"
    /\ UNCHANGED <<captureVars, turnVars, client>>

-----------------------------------------------------------------------------

\* The recorder takes a span only while its run is open.
Export(t) ==
    /\ \E e \in EventIds : (run[t] = "open" /\ Record(t, e)) \/ Reject(t, e)
    /\ UNCHANGED <<turnVars, clientVars>>

Capture(t) == (Intake(t) \/ Delivery(t)) /\ UNCHANGED <<turnVars, clientVars>>

\* What the window does by itself: every request, and the start of the CLI,
\* ends in an answer or an error.
TurnStep(t) ==
    \/ CreateRun(t) \/ StartTask(t) \/ GetClient(t) \/ OpenSession(t) \/ AttachUsage(t)
    \/ Interrupt(t) \/ Detached(t) \/ CloseTask(t) \/ EndRun(t)
    \/ ReportFailure(t) \/ AbandonRun(t) \/ Release(t) \/ Disconnect(t)

ClientStep == ClientStarts \/ ClientFails \/ StopClient

Next ==
    \/ \E t \in Turns :
          \/ Begin(t) \/ Cancel(t) \/ Reply(t) \/ ReplyFails(t)
          \/ TurnStep(t) \/ Capture(t) \/ Export(t)
    \/ ClientStep
    \/ Dispose

Fairness ==
    /\ \A t \in Turns :
          /\ WF_vars(TurnStep(t))
          /\ WF_vars(Delivery(t) /\ UNCHANGED <<turnVars, clientVars>>)
    /\ WF_vars(ClientStep)

Spec == Init /\ [][Next]_vars /\ Fairness

-----------------------------------------------------------------------------
(* Properties.                                                             *)

TypeOK ==
    /\ CaptureTypeOK
    /\ at \in [Turns -> Places]
    /\ cancelled \in [Turns -> BOOLEAN]
    /\ run \in [Turns -> {"none", "open", "ended"}]
    /\ runKnown \in [Turns -> BOOLEAN]
    /\ task \in [Turns -> {"none", "open", "closed"}]
    /\ taskKnown \in [Turns -> BOOLEAN]
    /\ session \in [Turns -> {"none", "open", "closed"}]
    /\ client \in {"none", "pending", "ready"}
    /\ processes \in [starting : Nat, running : Nat]
    /\ disposal \in {"no", "waiting", "done"}

\* A turn that returns normally leaves a completed run whose task is closed and
\* that holds every call its session reported.
GoodTurnIsComplete ==
    \A t \in Turns : At(t, "ok") =>
        /\ run[t] = "ended" /\ task[t] = "closed" /\ session[t] = "closed"
        /\ \A e \in reported[t] : \E d \in ToSet(recorded[t]) : SameCall(d, e)

\* A run that a failed turn completes does not keep the task open that the turn
\* knows it started.
EndedRunClosesTask ==
    \A t \in Turns : run[t] = "ended" /\ taskKnown[t] => task[t] = "closed"

\* A stopped runtime leaves no CLI behind, and no turn starts one again.
NoStrayClient == disposal = "done" => processes = [starting |-> 0, running |-> 0]

\* A turn that was cancelled or got its reply ends, whatever becomes of its posts.
TurnsEnd == \A t \in Turns : cancelled[t] \/ At(t, "detaching") ~> at[t] \in Over
=============================================================================
