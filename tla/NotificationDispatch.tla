------------------------- MODULE NotificationDispatch -------------------------
(***************************************************************************)
(* The notification queue of the monolith and its                          *)
(* NotificationDispatchWorker, which polls the queue and has a provider    *)
(* deliver what is due.  Every process of the monolith runs one, and       *)
(* clusterize forks several.  The processing flag keeps one process from   *)
(* polling twice at a time; nothing keeps two processes from polling the   *)
(* same row, and each then sends it on the attempts it has read.           *)
(***************************************************************************)
EXTENDS Integers, FiniteSets

CONSTANTS
    Rows,          \* the rows of the queue
    Senders,       \* the dispatch workers, one a process
    SendAttempts,  \* max_attempts
    SendBatch,     \* NOTIFICATION_BATCH_SIZE
    MaxSendFaults  \* bound: crashes and failed queries of the workers

ASSUME DispatchAssumption ==
    /\ IsFiniteSet(Rows)
    /\ SendAttempts \in Nat \ {0} /\ SendBatch \in Nat \ {0}
    /\ MaxSendFaults \in Nat

VARIABLES
    row,        \* status of each row; "absent" until it is enqueued
    tries,      \* attempts column
    due,        \* the rows whose scheduled_for has passed
    mails,      \* how often the provider has delivered each row
    wpc,        \* where each worker is; with nothing to do it is at "next" as well
    wtodo,      \* the rows of its batch a worker has not come to
    wseen,      \* attempts in the entities it fetched and is not done with
    current,    \* the row it is at, as {row}, or {}
    abandoned,  \* the rows a crash or a failed query left in "sending"
    shared,     \* history: the rows two workers have had in hand at a time
    sendFaults

queueVars == <<row, tries, due, mails, wpc, wtodo, wseen, current, abandoned,
               shared, sendFaults>>

DispatchInit ==
    /\ row = [n \in Rows |-> "absent"]
    /\ tries = [n \in Rows |-> 0]
    /\ due = {}
    /\ mails = [n \in Rows |-> 0]
    /\ wpc = [w \in Senders |-> "next"]
    /\ wtodo = [w \in Senders |-> {}]
    /\ current = [w \in Senders |-> {}]
    /\ wseen = [w \in Senders |-> [n \in Rows |-> 0]]
    /\ abandoned = {}
    /\ shared = {}
    /\ sendFaults = 0

\* NotificationService.enqueue, due at once.
Enqueue(n) ==
    /\ row[n] = "absent"
    /\ row' = [row EXCEPT ![n] = "queued"]
    /\ due' = due \cup {n}
    /\ UNCHANGED <<tries, mails, wpc, wtodo, wseen, current, abandoned, shared,
                   sendFaults>>

\* The delay of a retry goes by.
BecomeDue(n) ==
    /\ row[n] = "queued" /\ n \notin due
    /\ due' = due \cup {n}
    /\ UNCHANGED <<row, tries, mails, wpc, wtodo, wseen, current, abandoned,
                   shared, sendFaults>>

\* Mutant: a row that was tried before is not polled.
DueUntried == {n \in due : row[n] = "queued" /\ tries[n] = 0}
Due == {n \in due : row[n] = "queued"}

\* The rows worker w has fetched and not finished.
InHand(w) == wtodo[w] \cup current[w]

\* poll fetches a batch, without a lock and without a mark.  It is ordered by
\* scheduled_for, which the model does not tell apart: any SendBatch due rows.
Poll(w) ==
    /\ wpc[w] = "next" /\ wtodo[w] = {}
    /\ \E B \in SUBSET Due :
        /\ B # {}
        /\ Cardinality(B) = SendBatch \/ (Cardinality(B) < SendBatch /\ B = Due)
        /\ wtodo' = [wtodo EXCEPT ![w] = B]
        /\ wseen' = [wseen EXCEPT ![w] = [n \in Rows |-> IF n \in B THEN tries[n] ELSE 0]]
        /\ shared' = shared \cup {n \in B : \E v \in Senders \ {w} : n \in InHand(v)}
    /\ UNCHANGED <<row, tries, due, mails, wpc, current, abandoned, sendFaults>>

\* A worker is done with the row it was at, and goes on to the next one.
Done(w) ==
    /\ wpc' = [wpc EXCEPT ![w] = "next"]
    /\ current' = [current EXCEPT ![w] = {}]
    /\ wseen' = [wseen EXCEPT ![w] = [n \in Rows |-> IF n \in wtodo'[w] THEN @[n] ELSE 0]]

\* processNotification counts the attempt from the entity it fetched and marks
\* the row, whatever its status is by now.
MarkSending(w, n) ==
    /\ wpc[w] = "next" /\ n \in wtodo[w]
    /\ wtodo' = [wtodo EXCEPT ![w] = @ \ {n}]
    /\ current' = [current EXCEPT ![w] = {n}]
    /\ row' = [row EXCEPT ![n] = "sending"]
    /\ tries' = [tries EXCEPT ![n] = wseen[w][n] + 1]
    /\ wpc' = [wpc EXCEPT ![w] = "sending"]
    /\ UNCHANGED <<due, mails, wseen, abandoned, shared, sendFaults>>

\* Nobody to send to: no such user, no telephone number, no active device.
NoAddressee(w, n) ==
    /\ wpc[w] = "sending" /\ n \in current[w]
    /\ row' = [row EXCEPT ![n] = "failed"]
    /\ UNCHANGED <<tries, due, mails, wtodo, abandoned, shared, sendFaults>>
    /\ Done(w)

\* The provider delivers the message and says so, or does and its answer is
\* lost, or does not.
Send(w, n, delivered, answered) ==
    /\ wpc[w] = "sending" /\ n \in current[w]
    /\ answered => delivered
    /\ mails' = IF delivered THEN [mails EXCEPT ![n] = @ + 1] ELSE mails
    /\ wpc' = [wpc EXCEPT ![w] = IF answered THEN "sent" ELSE "failed"]
    /\ UNCHANGED <<row, tries, due, wtodo, wseen, current, abandoned, shared, sendFaults>>

\* Mutant: the attempt just made is not counted.
LastTryForgetful(w, n) == wseen[w][n] >= SendAttempts
LastTry(w, n) == wseen[w][n] + 1 >= SendAttempts

\* The row is sent, given up, or queued again for later.
Record(w, n) ==
    /\ wpc[w] \in {"sent", "failed"} /\ n \in current[w]
    /\ row' = [row EXCEPT ![n] = IF wpc[w] = "sent" THEN "sent"
                                 ELSE IF LastTry(w, n) THEN "failed" ELSE "queued"]
    /\ due' = IF wpc[w] = "failed" /\ ~LastTry(w, n) THEN due \ {n} ELSE due
    /\ UNCHANGED <<tries, mails, wtodo, abandoned, shared, sendFaults>>
    /\ Done(w)

SendFault == sendFaults < MaxSendFaults /\ sendFaults' = sendFaults + 1

\* A query of processNotification fails; poll catches it and goes on.  A row that
\* is not marked yet stays queued.  A query that took effect and lost its answer
\* is a MarkSending followed by this, or a Record: poll goes on after it as well.
DispatchQueryFails(w) ==
    /\ SendFault
    /\ \/ \E n \in wtodo[w] : wpc[w] = "next" /\ wtodo' = [wtodo EXCEPT ![w] = @ \ {n}]
       \/ wpc[w] \in {"sending", "sent", "failed"} /\ UNCHANGED wtodo
    /\ abandoned' = abandoned \cup current[w]
    /\ UNCHANGED <<row, tries, due, mails, shared>>
    /\ Done(w)

\* A process dies and is forked again.
DispatchCrash(w) ==
    /\ InHand(w) # {}
    /\ SendFault
    /\ wtodo' = [wtodo EXCEPT ![w] = {}]
    /\ abandoned' = abandoned \cup current[w]
    /\ UNCHANGED <<row, tries, due, mails, shared>>
    /\ Done(w)

\* What a worker does of its own accord.
WorkerStep(w) ==
    \/ Poll(w)
    \/ \E n \in Rows :
        \/ MarkSending(w, n) \/ NoAddressee(w, n) \/ Record(w, n)
        \/ \E delivered, answered \in BOOLEAN : Send(w, n, delivered, answered)

DispatchFault(w) == DispatchQueryFails(w) \/ DispatchCrash(w)

DispatchNext ==
    \/ \E w \in Senders : WorkerStep(w) \/ DispatchFault(w)
    \/ \E n \in Rows : BecomeDue(n)

-----------------------------------------------------------------------------
(* Properties. *)

\* A row is sent at most once for every attempt that is counted, and at most
\* max_attempts times: answers lost, rows queued again, processes restarted and
\* rows passed from one process to another included.  Not so for a row that two
\* processes had in hand at a time: both send it and count one attempt, or one
\* writes its older count over the other's.
SendingIsBounded ==
    \A n \in Rows \ shared : mails[n] <= tries[n] /\ tries[n] <= SendAttempts

=============================================================================
