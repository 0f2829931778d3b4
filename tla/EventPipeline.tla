---------------------------- MODULE EventPipeline ----------------------------
(***************************************************************************)
(* From a committed domain event to the message a user receives: the       *)
(* relays of OutboxRelay, whose notification consumer posts to the         *)
(* monolith, and the queue of NotificationDispatch behind that endpoint.   *)
(* Every post adds a row to the queue; nothing recognises a repeated one.  *)
(***************************************************************************)
EXTENDS OutboxRelay, NotificationDispatch

CONSTANTS
    Personal,  \* the calls that name a user: the others reach handleEvent,
               \* which skips a notification without a userId
    RowsOf     \* the rows each event's notifications may take up

pipelineVars == <<relayVars, queueVars>>

ASSUME PipelineAssumption ==
    /\ Rows = UNION {RowsOf[e] : e \in Events}
    /\ \A d, e \in Events : d # e => RowsOf[d] \cap RowsOf[e] = {}

PipelineInit == Init /\ DispatchInit

\* The call relay r is at, of event e, asks for a notification of a user.
NamesAUser(r, e) == at[r] \in DOMAIN Calls[e] /\ Calls[e][at[r]] \in Personal

\* What the monolith does with a call that reaches it: a row is added to the
\* queue, or the call is answered and nothing done.
\* Mutant: nothing is done for a user either.
Nothing(r, e) == UNCHANGED queueVars
HandleEvent(r, e) ==
    IF NamesAUser(r, e)
    THEN \E n \in RowsOf[e] :
            /\ \A m \in RowsOf[e] : m < n => row[m] # "absent"
            /\ Enqueue(n)
    ELSE UNCHANGED queueVars

\* A call that takes effect, answered or not.
CallArrives(r, e) ==
    (CallSucceeds(r, e) \/ CallFails(r, e, TRUE)) /\ HandleEvent(r, e)

CallIsLost(r, e) == CallFails(r, e, FALSE) /\ UNCHANGED queueVars

PipelineNext ==
    \/ \E e \in Events : (Commit(e) \/ Age(e)) /\ UNCHANGED queueVars
    \/ \E r \in Replicas : (RelayStep(r) \/ FaultStep(r)) /\ UNCHANGED queueVars
    \/ \E r \in Replicas, e \in Events : CallArrives(r, e) \/ CallIsLost(r, e)
    \/ DispatchNext /\ UNCHANGED relayVars

PipelineSpec == PipelineInit /\ [][PipelineNext]_pipelineVars

\* The relays are fair as in OutboxRelay.  Every worker polls every five seconds,
\* its calls end, and the delay of a retry goes by.
Fairness ==
    /\ \A r \in Replicas :
        /\ WF_pipelineVars(RelayStep(r) /\ UNCHANGED queueVars)
        /\ \A e \in Events : WF_pipelineVars(CallArrives(r, e) \/ CallIsLost(r, e))
    /\ \A e \in Events : WF_pipelineVars(Age(e) /\ UNCHANGED queueVars)
    /\ \A w \in Senders : WF_pipelineVars(WorkerStep(w) /\ UNCHANGED relayVars)
    /\ \A n \in Rows : WF_pipelineVars(BecomeDue(n) /\ UNCHANGED relayVars)

FairPipelineSpec == PipelineSpec /\ Fairness

-----------------------------------------------------------------------------
(* Properties. *)

\* A processed event has a row in the queue for each notification of a user it
\* asks for: the two databases' tables are written by different services, and a
\* call that fails half way is made again.
ProcessedIsQueued ==
    \A e \in Events : status[e] = "processed" =>
        \/ \A c \in DOMAIN Calls[e] : Calls[e][c] \notin Personal
        \/ \E n \in RowsOf[e] : row[n] # "absent"

\* What a user is to be told of is told: once its event is committed, a
\* notification is delivered, unless the relay gives the event up, a worker gives
\* the notification up, or a fault of a worker leaves it in "sending".
UserIsTold ==
    \A e \in Events :
        (\E c \in DOMAIN Calls[e] : Calls[e][c] \in Personal) /\ status[e] = "pending"
          ~> \/ status[e] = "dead_letter"
             \/ \E n \in RowsOf[e] :
                    mails[n] > 0 \/ row[n] = "failed" \/ n \in abandoned

\* A row of the queue does not stay there.
NotificationSettles ==
    \A n \in Rows : row[n] = "queued" ~> (row[n] \in {"sent", "failed"} \/ n \in abandoned)

=============================================================================
