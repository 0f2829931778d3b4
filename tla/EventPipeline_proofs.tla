------------------------- MODULE EventPipeline_proofs -------------------------
(***************************************************************************)
(* Proofs about the two services together: what the relays guarantee of    *)
(* the outbox holds behind the monolith's queue as well, and the queue is  *)
(* as long as the outbox says.                                             *)
(***************************************************************************)
EXTENDS EventPipeline, OutboxRelay_proofs

\* A call is the relay's, whatever the monolith makes of it.
LEMMA PipelineIsNext == [PipelineNext]_pipelineVars => [Next]_relayVars
  BY DEF PipelineNext, CallArrives, CallIsLost, Next, Call, pipelineVars

\* The relays behave in the pipeline as OutboxRelay says.
LEMMA PipelineIsRelay == PipelineSpec => Spec
  BY PipelineIsNext, PTL DEF PipelineSpec, PipelineInit, Spec

LEMMA RelayInPipeline == PipelineSpec => []IInv
  BY PipelineIsRelay, IInvHolds, PTL

-----------------------------------------------------------------------------
(* The workers of the queue. *)

\* What a worker knows of a row it has in hand: that the attempts it read are those
\* of the row, and between its two updates of the row that it has counted the
\* attempt and, as long as it is sending, not used it.
HoldInv(w, n) ==
    /\ n \in wtodo[w] => row[n] = "queued" /\ wseen[w][n] = tries[n]
    /\ n \in current[w] => /\ row[n] = "sending" /\ tries[n] = wseen[w][n] + 1
                           /\ wpc[w] = "sending" => mails[n] < tries[n]

CountInv(n) ==
    /\ row[n] = "absent" => tries[n] = 0
    /\ row[n] = "queued" => tries[n] < SendAttempts
    /\ mails[n] <= tries[n] /\ tries[n] <= SendAttempts

\* One worker at most has the row in hand.
OneHolder(n) ==
    \A v, w \in Senders : n \in InHand(v) /\ n \in InHand(w) => v = w

RowInv(n) == CountInv(n) /\ OneHolder(n) /\ \A w \in Senders : HoldInv(w, n)

DispatchType ==
    /\ row \in [Rows -> {"absent", "queued", "sending", "sent", "failed"}]
    /\ tries \in [Rows -> Nat] /\ mails \in [Rows -> Nat]
    /\ wseen \in [Senders -> [Rows -> Nat]]
    /\ due \subseteq Rows /\ shared \subseteq Rows
    /\ wtodo \in [Senders -> SUBSET Rows] /\ current \in [Senders -> SUBSET Rows]
    /\ wpc \in [Senders -> {"next", "sending", "sent", "failed"}]
    /\ \A w \in Senders : wpc[w] = "next" => current[w] = {}

DispatchInv == DispatchType /\ \A n \in Rows \ shared : RowInv(n)

LEMMA InitDispatch == DispatchInit => DispatchInv
  <1> SUFFICES ASSUME DispatchInit PROVE DispatchInv
    OBVIOUS
  <1>1. DispatchType
    BY DEF DispatchInit, DispatchType
  <1>2. ASSUME NEW n \in Rows PROVE RowInv(n)
    BY <1>2, DispatchAssumption DEF DispatchInit, RowInv, CountInv, OneHolder, InHand, HoldInv
  <1> QED
    BY <1>1, <1>2 DEF DispatchInv

\* A step that does not concern a row: nobody takes it in hand.
LEMMA RowKept ==
    ASSUME NEW n \in Rows, RowInv(n),
           row'[n] = row[n], tries'[n] = tries[n], mails'[n] = mails[n],
           \A w \in Senders :
               /\ n \in wtodo'[w] => n \in wtodo[w] /\ wseen'[w][n] = wseen[w][n]
               /\ n \in current'[w] => /\ n \in current[w] /\ wseen'[w][n] = wseen[w][n]
                                       /\ wpc'[w] = "sending" => wpc[w] = "sending"
    PROVE  RowInv(n)'
  <1>1. CountInv(n)'
    BY DEF RowInv, CountInv
  <1>2. OneHolder(n)'
    BY DEF RowInv, OneHolder, InHand
  <1>3. ASSUME NEW w \in Senders PROVE HoldInv(w, n)'
    BY <1>3 DEF RowInv, HoldInv
  <1> QED
    BY <1>1, <1>2, <1>3 DEF RowInv

LEMMA EnqueueKeeps ==
    ASSUME DispatchInv, NEW n \in Rows, Enqueue(n)
    PROVE  DispatchInv'
  <1>1. /\ row[n] = "absent" /\ row' = [row EXCEPT ![n] = "queued"] /\ due' = due \cup {n}
        /\ UNCHANGED <<tries, mails, wpc, wtodo, wseen, current, shared>>
    BY DEF Enqueue
  <1>2. DispatchType'
    BY <1>1 DEF DispatchInv, DispatchType
  <1>3. ASSUME NEW m \in Rows \ shared' PROVE RowInv(m)'
    <2>1. RowInv(m)
      BY <1>1 DEF DispatchInv
    <2>2. CASE m = n
      <3>1. \A w \in Senders : n \notin wtodo[w] /\ n \notin current[w]
        BY <1>1, <2>1, <2>2 DEF RowInv, HoldInv
      <3>2. OneHolder(n)' /\ \A w \in Senders : HoldInv(w, n)'
        BY <1>1, <3>1 DEF OneHolder, InHand, HoldInv
      <3>3. CountInv(n)'
        BY <1>1, <2>1, <2>2, DispatchAssumption DEF RowInv, CountInv, DispatchInv, DispatchType
      <3> QED
        BY <2>2, <3>2, <3>3 DEF RowInv
    <2>3. CASE m # n
      <3>1. row'[m] = row[m]
        BY <1>1, <2>3 DEF DispatchInv, DispatchType
      <3> QED
        BY <1>1, <2>1, <3>1, RowKept
    <2> QED
      BY <2>2, <2>3
  <1> QED
    BY <1>2, <1>3 DEF DispatchInv

\* A worker that is done with a row keeps what it read of the others.
LEMMA DoneKeeps ==
    ASSUME DispatchInv, NEW w \in Senders, Done(w),
           wtodo' \in [Senders -> SUBSET Rows], wtodo'[w] \subseteq wtodo[w],
           \A v \in Senders : v # w => wtodo'[v] = wtodo[v]
    PROVE  /\ wpc' \in [Senders -> {"next", "sending", "sent", "failed"}]
           /\ current' \in [Senders -> SUBSET Rows]
           /\ wseen' \in [Senders -> [Rows -> Nat]]
           /\ \A v \in Senders : wpc'[v] = "next" => current'[v] = {}
           /\ \A v \in Senders, n \in Rows :
                 /\ n \in wtodo'[v] => n \in wtodo[v] /\ wseen'[v][n] = wseen[v][n]
                 /\ n \in current'[v] => /\ n \in current[v] /\ v # w
                                         /\ wseen'[v][n] = wseen[v][n] /\ wpc'[v] = wpc[v]
  <1>1. /\ wpc' = [wpc EXCEPT ![w] = "next"] /\ current' = [current EXCEPT ![w] = {}]
        /\ wseen' = [wseen EXCEPT ![w] = [n \in Rows |-> IF n \in wtodo'[w] THEN @[n] ELSE 0]]
    BY DEF Done
  <1>2. [n \in Rows |-> IF n \in wtodo'[w] THEN wseen[w][n] ELSE 0] \in [Rows -> Nat]
    BY DEF DispatchInv, DispatchType
  <1>3. /\ wseen' \in [Senders -> [Rows -> Nat]]
        /\ \A v \in Senders \ {w} : wseen'[v] = wseen[v]
        /\ \A n \in Rows : n \in wtodo'[w] => wseen'[w][n] = wseen[w][n]
    BY <1>1, <1>2 DEF DispatchInv, DispatchType
  <1>4. /\ wpc' \in [Senders -> {"next", "sending", "sent", "failed"}]
        /\ current' \in [Senders -> SUBSET Rows] /\ current'[w] = {}
        /\ \A v \in Senders \ {w} : wpc'[v] = wpc[v] /\ current'[v] = current[v]
    BY <1>1 DEF DispatchInv, DispatchType
  <1>5. \A v \in Senders : wpc'[v] = "next" => current'[v] = {}
    BY <1>4 DEF DispatchInv, DispatchType
  <1>6. ASSUME NEW v \in Senders, NEW n \in Rows
        PROVE  /\ n \in wtodo'[v] => n \in wtodo[v] /\ wseen'[v][n] = wseen[v][n]
               /\ n \in current'[v] => /\ n \in current[v] /\ v # w
                                       /\ wseen'[v][n] = wseen[v][n] /\ wpc'[v] = wpc[v]
    <2>1. CASE v = w
      BY <1>3, <1>4, <2>1
    <2>2. CASE v # w
      BY <1>3, <1>4, <2>2
    <2> QED
      BY <2>1, <2>2
  <1> QED
    BY <1>3, <1>4, <1>5, <1>6

\* What a worker polls nobody else has in hand, or it becomes shared.
LEMMA PollKeeps ==
    ASSUME DispatchInv, NEW w \in Senders, Poll(w)
    PROVE  DispatchInv'
  <1>1. PICK B \in SUBSET Due :
          /\ wtodo' = [wtodo EXCEPT ![w] = B]
          /\ wseen' = [wseen EXCEPT ![w] = [n \in Rows |-> IF n \in B THEN tries[n] ELSE 0]]
          /\ shared' = shared \cup {n \in B : \E v \in Senders \ {w} : n \in InHand(v)}
    BY DEF Poll
  <1>2. /\ wpc[w] = "next" /\ current[w] = {}
        /\ UNCHANGED <<row, tries, due, mails, wpc, current>>
    BY DEF Poll, DispatchInv, DispatchType
  <1>3. B \subseteq Rows /\ \A n \in B : row[n] = "queued"
    BY DEF Due, DispatchInv, DispatchType
  <1>4. [n \in Rows |-> IF n \in B THEN tries[n] ELSE 0] \in [Rows -> Nat]
    BY DEF DispatchInv, DispatchType
  <1>5. DispatchType'
    BY <1>1, <1>2, <1>3, <1>4 DEF DispatchInv, DispatchType
  <1>6. ASSUME NEW v \in Senders, v # w PROVE wtodo'[v] = wtodo[v] /\ wseen'[v] = wseen[v]
    BY <1>1, <1>6 DEF DispatchInv, DispatchType
  <1>7. wtodo'[w] = B /\ \A n \in B : wseen'[w][n] = tries[n]
    BY <1>1, <1>3 DEF DispatchInv, DispatchType
  <1>8. ASSUME NEW n \in Rows \ shared' PROVE RowInv(n)'
    <2>1. RowInv(n)
      BY <1>1, <1>8 DEF DispatchInv
    <2>2. CASE n \in B
      <3>1. \A v \in Senders \ {w} : n \notin InHand(v)
        BY <1>1, <1>8, <2>2
      <3>2. OneHolder(n)'
        <4>1. \A v \in Senders \ {w} : n \notin InHand(v)'
          BY <1>2, <1>6, <3>1 DEF InHand
        <4> QED
          BY <4>1 DEF OneHolder
      <3>3. \A v \in Senders : HoldInv(v, n)'
        <4>1. HoldInv(w, n)'
          BY <1>2, <1>3, <1>7, <2>2 DEF HoldInv
        <4>2. ASSUME NEW v \in Senders, v # w PROVE HoldInv(v, n)'
          BY <1>2, <1>6, <3>1, <4>2 DEF HoldInv, InHand
        <4> QED
          BY <4>1, <4>2
      <3>4. CountInv(n)'
        BY <1>2, <2>1 DEF RowInv, CountInv
      <3> QED
        BY <3>2, <3>3, <3>4 DEF RowInv
    <2>3. CASE n \notin B
      <3>1. \A v \in Senders :
              /\ n \in wtodo'[v] => n \in wtodo[v] /\ wseen'[v][n] = wseen[v][n]
              /\ n \in current'[v] => n \in current[v] /\ wseen'[v][n] = wseen[v][n]
        BY <1>2, <1>6, <1>7, <2>3
      <3> QED
        BY <1>2, <2>1, <3>1, RowKept
    <2> QED
      BY <2>2, <2>3
  <1> QED
    BY <1>5, <1>8 DEF DispatchInv

\* Marking a row counts the one attempt that sending it will use.
LEMMA MarkSendingKeeps ==
    ASSUME DispatchInv, NEW w \in Senders, NEW n \in Rows, MarkSending(w, n)
    PROVE  DispatchInv'
  <1>1. /\ wpc[w] = "next" /\ n \in wtodo[w] /\ current[w] = {}
        /\ wtodo' = [wtodo EXCEPT ![w] = @ \ {n}] /\ current' = [current EXCEPT ![w] = {n}]
        /\ wpc' = [wpc EXCEPT ![w] = "sending"]
        /\ row' = [row EXCEPT ![n] = "sending"]
        /\ tries' = [tries EXCEPT ![n] = wseen[w][n] + 1]
        /\ UNCHANGED <<due, mails, wseen, shared>>
    BY DEF MarkSending, DispatchInv, DispatchType
  <1>2. DispatchType'
    <2>1. wseen[w][n] + 1 \in Nat
      BY DEF DispatchInv, DispatchType
    <2>2. tries' \in [Rows -> Nat]
      BY <1>1, <2>1 DEF DispatchInv, DispatchType
    <2> QED
      BY <1>1, <2>2 DEF DispatchInv, DispatchType
  <1>3. /\ wtodo'[w] = wtodo[w] \ {n} /\ current'[w] = {n} /\ wpc'[w] = "sending"
        /\ row'[n] = "sending" /\ tries'[n] = wseen[w][n] + 1
        /\ \A v \in Senders \ {w} : /\ wtodo'[v] = wtodo[v] /\ current'[v] = current[v]
                                    /\ wpc'[v] = wpc[v]
        /\ \A m \in Rows \ {n} : row'[m] = row[m] /\ tries'[m] = tries[m]
    BY <1>1 DEF DispatchInv, DispatchType
  <1>4. ASSUME NEW m \in Rows \ shared' PROVE RowInv(m)'
    <2>1. RowInv(m)
      BY <1>1, <1>4 DEF DispatchInv
    <2>2. CASE m = n
      <3>1. \A v \in Senders \ {w} : n \notin InHand(v)
        BY <1>1, <2>1, <2>2 DEF RowInv, OneHolder, InHand
      <3>2. \A v \in Senders \ {w} : n \notin InHand(v)'
        BY <1>3, <3>1 DEF InHand
      <3>3. row[n] = "queued" /\ wseen[w][n] = tries[n] /\ tries[n] < SendAttempts
            /\ mails[n] <= tries[n] /\ tries[n] \in Nat /\ mails[n] \in Nat
        BY <1>1, <2>1, <2>2 DEF RowInv, HoldInv, CountInv, DispatchInv, DispatchType
      <3>4. /\ mails'[n] < tries'[n] /\ mails'[n] <= tries'[n] /\ tries'[n] <= SendAttempts
            /\ tries'[n] = wseen'[w][n] + 1
        BY <1>1, <1>3, <3>3, DispatchAssumption
      <3>5. CountInv(n)'
        BY <1>3, <3>4, Zenon DEF CountInv
      <3>6. OneHolder(n)'
        BY <3>2 DEF OneHolder
      <3>7. HoldInv(w, n)'
        BY <1>3, <3>4, Zenon DEF HoldInv
      <3>8. \A v \in Senders \ {w} : HoldInv(v, n)'
        BY <3>2 DEF HoldInv, InHand
      <3> QED
        BY <2>2, <3>5, <3>6, <3>7, <3>8 DEF RowInv
    <2>3. CASE m # n
      <3>1. \A v \in Senders :
              /\ m \in wtodo'[v] => m \in wtodo[v]
              /\ m \in current'[v] => m \in current[v] /\ wpc'[v] = wpc[v]
        BY <1>3, <2>3
      <3> QED
        BY <1>1, <1>3, <2>1, <2>3, <3>1, RowKept
    <2> QED
      BY <2>2, <2>3
  <1> QED
    BY <1>2, <1>4 DEF DispatchInv

\* A row that is queued again has an attempt left.
LEMMA RecordKeeps ==
    ASSUME DispatchInv, NEW w \in Senders, NEW n \in Rows, NoAddressee(w, n) \/ Record(w, n)
    PROVE  DispatchInv'
  <1>1. /\ n \in current[w] /\ Done(w)
        /\ \/ row' = [row EXCEPT ![n] = "failed"]
           \/ row' = [row EXCEPT ![n] = "sent"]
           \/ row' = [row EXCEPT ![n] = "queued"] /\ ~LastTry(w, n)
        /\ due' \subseteq due /\ UNCHANGED <<tries, mails, wtodo, shared>>
    BY DEF NoAddressee, Record
  <1>2. /\ wpc' \in [Senders -> {"next", "sending", "sent", "failed"}]
        /\ current' \in [Senders -> SUBSET Rows]
        /\ wseen' \in [Senders -> [Rows -> Nat]]
        /\ \A v \in Senders : wpc'[v] = "next" => current'[v] = {}
        /\ \A v \in Senders, m \in Rows :
              /\ m \in wtodo'[v] => m \in wtodo[v] /\ wseen'[v][m] = wseen[v][m]
              /\ m \in current'[v] => /\ m \in current[v] /\ v # w
                                      /\ wseen'[v][m] = wseen[v][m] /\ wpc'[v] = wpc[v]
    <2>1. /\ wtodo' \in [Senders -> SUBSET Rows] /\ wtodo'[w] \subseteq wtodo[w]
          /\ \A v \in Senders : v # w => wtodo'[v] = wtodo[v]
      BY <1>1 DEF DispatchInv, DispatchType
    <2> QED
      BY <1>1, <2>1, DoneKeeps
  <1>3. DispatchType'
    <2>1. /\ row' \in [Rows -> {"absent", "queued", "sending", "sent", "failed"}]
          /\ due' \subseteq Rows /\ shared' \subseteq Rows
          /\ tries' \in [Rows -> Nat] /\ mails' \in [Rows -> Nat]
          /\ wtodo' \in [Senders -> SUBSET Rows]
      BY <1>1 DEF DispatchInv, DispatchType
    <2> QED
      BY <1>2, <2>1 DEF DispatchType
  <1>4. ASSUME NEW m \in Rows \ shared' PROVE RowInv(m)'
    <2>1. RowInv(m)
      BY <1>1, <1>4 DEF DispatchInv
    <2>2. CASE m = n
      <3>1. row[n] = "sending" /\ tries[n] = wseen[w][n] + 1
        BY <1>1, <2>1, <2>2 DEF RowInv, HoldInv
      <3>2. \A v \in Senders : n \notin wtodo'[v] /\ n \notin current'[v]
        BY <1>1, <1>2, <2>1, <2>2, <3>1 DEF RowInv, HoldInv, OneHolder, InHand
      <3>3. OneHolder(n)' /\ \A v \in Senders : HoldInv(v, n)'
        BY <3>2 DEF OneHolder, InHand, HoldInv
      <3>4. ~LastTry(w, n) => tries[n] < SendAttempts
        BY <3>1, DispatchAssumption DEF LastTry, DispatchInv, DispatchType
      <3>5. row'[n] \in {"failed", "sent"} \/ (row'[n] = "queued" /\ ~LastTry(w, n))
        BY <1>1 DEF DispatchInv, DispatchType
      <3>6. CountInv(n)'
        BY <1>1, <2>1, <2>2, <3>4, <3>5 DEF RowInv, CountInv
      <3> QED
        BY <2>2, <3>3, <3>6 DEF RowInv
    <2>3. CASE m # n
      <3>1. row'[m] = row[m]
        BY <1>1, <2>3 DEF DispatchInv, DispatchType
      <3> QED
        BY <1>1, <1>2, <2>1, <3>1, RowKept
    <2> QED
      BY <2>2, <2>3
  <1> QED
    BY <1>3, <1>4 DEF DispatchInv

LEMMA SendKeeps ==
    ASSUME DispatchInv, NEW w \in Senders, NEW n \in Rows, NEW delivered \in BOOLEAN,
           NEW answered \in BOOLEAN, Send(w, n, delivered, answered)
    PROVE  DispatchInv'
  <1>1. /\ wpc[w] = "sending" /\ n \in current[w]
        /\ wpc' = [wpc EXCEPT ![w] = IF answered THEN "sent" ELSE "failed"]
        /\ mails' \in {mails, [mails EXCEPT ![n] = @ + 1]}
        /\ UNCHANGED <<row, tries, due, wtodo, wseen, current, shared>>
    BY DEF Send
  <1>2. wpc'[w] \in {"sent", "failed"} /\ \A v \in Senders \ {w} : wpc'[v] = wpc[v]
    BY <1>1 DEF DispatchInv, DispatchType
  <1>3. mails' \in [Rows -> Nat]
    BY <1>1 DEF DispatchInv, DispatchType
  <1>4. DispatchType'
    BY <1>1, <1>2, <1>3 DEF DispatchInv, DispatchType
  <1>5. ASSUME NEW m \in Rows \ shared' PROVE RowInv(m)'
    <2>1. RowInv(m)
      BY <1>1, <1>5 DEF DispatchInv
    <2>2. CASE m = n
      <3>1. mails[n] < tries[n] /\ mails[n] \in Nat /\ tries[n] \in Nat
        BY <1>1, <2>1, <2>2 DEF RowInv, HoldInv, DispatchInv, DispatchType
      <3>2. mails'[n] <= tries'[n]
        BY <1>1, <3>1 DEF DispatchInv, DispatchType
      <3>3. \A v \in Senders \ {w} : n \notin current[v]
        BY <1>1, <2>1, <2>2 DEF RowInv, OneHolder, InHand
      <3>4. OneHolder(n)'
        BY <1>1, <2>1, <2>2 DEF RowInv, OneHolder, InHand
      <3>5. ASSUME NEW v \in Senders PROVE HoldInv(v, n)'
        BY <1>1, <1>2, <2>1, <2>2, <3>3 DEF RowInv, HoldInv
      <3>6. CountInv(n)'
        BY <1>1, <2>1, <2>2, <3>2 DEF RowInv, CountInv
      <3> QED
        BY <2>2, <3>4, <3>5, <3>6 DEF RowInv
    <2>3. CASE m # n
      <3>1. mails'[m] = mails[m]
        BY <1>1, <2>3 DEF DispatchInv, DispatchType
      <3> QED
        BY <1>1, <1>2, <2>1, <3>1, RowKept
    <2> QED
      BY <2>2, <2>3
  <1> QED
    BY <1>4, <1>5 DEF DispatchInv

LEMMA WorkerKeeps ==
    ASSUME DispatchInv, DispatchNext
    PROVE  DispatchInv'
  <1>1. ASSUME NEW w \in Senders, DispatchFault(w) PROVE DispatchInv'
    <2>1. /\ Done(w) /\ UNCHANGED <<row, tries, due, mails, shared>>
          /\ wtodo' \in [Senders -> SUBSET Rows] /\ wtodo'[w] \subseteq wtodo[w]
          /\ \A v \in Senders : v # w => wtodo'[v] = wtodo[v]
      BY <1>1 DEF DispatchFault, DispatchQueryFails, DispatchCrash, DispatchInv, DispatchType
    <2>2. /\ wpc' \in [Senders -> {"next", "sending", "sent", "failed"}]
          /\ current' \in [Senders -> SUBSET Rows]
          /\ wseen' \in [Senders -> [Rows -> Nat]]
          /\ \A v \in Senders : wpc'[v] = "next" => current'[v] = {}
          /\ \A v \in Senders, m \in Rows :
                /\ m \in wtodo'[v] => m \in wtodo[v] /\ wseen'[v][m] = wseen[v][m]
                /\ m \in current'[v] => /\ m \in current[v] /\ v # w
                                        /\ wseen'[v][m] = wseen[v][m] /\ wpc'[v] = wpc[v]
      BY <2>1, DoneKeeps
    <2>3. DispatchType'
      BY <2>1, <2>2 DEF DispatchInv, DispatchType
    <2>4. ASSUME NEW n \in Rows \ shared' PROVE RowInv(n)'
      <3>1. RowInv(n)
        BY <2>1, <2>4 DEF DispatchInv
      <3> QED
        BY <2>1, <2>2, <3>1, RowKept
    <2> QED
      BY <2>3, <2>4 DEF DispatchInv
  <1>2. ASSUME NEW n \in Rows, BecomeDue(n) PROVE DispatchInv'
    <2>1. due' \subseteq Rows
          /\ UNCHANGED <<row, tries, mails, wpc, wtodo, wseen, current, shared>>
      BY <1>2 DEF BecomeDue, DispatchInv, DispatchType
    <2>2. ASSUME NEW m \in Rows \ shared' PROVE RowInv(m)'
      BY <2>1, <2>2, RowKept DEF DispatchInv
    <2>3. DispatchType'
      BY <2>1 DEF DispatchInv, DispatchType
    <2> QED
      BY <2>2, <2>3 DEF DispatchInv
  <1> QED
    BY <1>1, <1>2, PollKeeps, MarkSendingKeeps, RecordKeeps, SendKeeps
    DEF DispatchNext, WorkerStep

\* A step of the pipeline takes the queue one step of its own, adds a row to it,
\* or leaves it alone.
LEMMA QueueSteps ==
    ASSUME [PipelineNext]_pipelineVars
    PROVE  DispatchNext \/ (\E n \in Rows : Enqueue(n)) \/ UNCHANGED queueVars
  <1>1. ASSUME NEW r \in Replicas, NEW e \in Events, HandleEvent(r, e)
        PROVE  (\E n \in Rows : Enqueue(n)) \/ UNCHANGED queueVars
    BY <1>1, PipelineAssumption DEF HandleEvent
  <1> QED
    BY <1>1 DEF PipelineNext, CallArrives, CallIsLost, pipelineVars

LEMMA DispatchInvHolds == PipelineSpec => []DispatchInv
  <1>1. ASSUME DispatchInv, [PipelineNext]_pipelineVars PROVE DispatchInv'
    <2>1. CASE UNCHANGED queueVars
      <3>1. DispatchType'
        BY <1>1, <2>1 DEF queueVars, DispatchInv, DispatchType
      <3>2. ASSUME NEW n \in Rows \ shared' PROVE RowInv(n)'
        BY <1>1, <2>1, <3>2, RowKept DEF queueVars, DispatchInv
      <3> QED
        BY <3>1, <3>2 DEF DispatchInv
    <2> QED
      BY <1>1, <2>1, QueueSteps, EnqueueKeeps, WorkerKeeps
  <1> QED
    BY <1>1, InitDispatch, PTL DEF PipelineSpec, PipelineInit

\* processNotification delivers a message at most max_attempts times, however
\* its answers, its queries and the processes fail, and however many processes
\* there are, unless two of them had fetched the same row.
THEOREM SendingBounded == PipelineSpec => []SendingIsBounded
  <1>1. DispatchInv => SendingIsBounded
    BY DEF DispatchInv, RowInv, CountInv, SendingIsBounded
  <1> QED
    BY <1>1, DispatchInvHolds, PTL

-----------------------------------------------------------------------------
(* Across the services. *)

\* A call that names a user and took effect, answered or not, has left a row.
CallsAreQueued ==
    \A e \in Events : \A c \in DOMAIN Calls[e] :
        handled[e][c] > 0 /\ Calls[e][c] \in Personal => \E n \in RowsOf[e] : row[n] # "absent"

\* Rows stay in the queue.
LEMMA RowsStay ==
    ASSUME DispatchInv, [PipelineNext]_pipelineVars, NEW n \in Rows, row[n] # "absent"
    PROVE  row'[n] # "absent"
  <1>1. ASSUME NEW m \in Rows,
               \/ Enqueue(m)
               \/ \E w \in Senders : MarkSending(w, m) \/ NoAddressee(w, m) \/ Record(w, m)
        PROVE  row'[n] # "absent"
    BY <1>1 DEF MarkSending, NoAddressee, Record, Enqueue, DispatchInv, DispatchType
  <1>2. ASSUME \/ UNCHANGED queueVars
               \/ \E m \in Rows : BecomeDue(m)
               \/ \E w \in Senders : Poll(w) \/ DispatchFault(w)
               \/ \E w \in Senders, m \in Rows, delivered, answered \in BOOLEAN :
                       Send(w, m, delivered, answered)
        PROVE  row' = row
    BY <1>2 DEF Poll, DispatchFault, DispatchQueryFails, DispatchCrash, BecomeDue, Send, queueVars
  <1> QED
    BY <1>1, <1>2, QueueSteps DEF DispatchNext, WorkerStep

LEMMA CallsAreQueuedStep ==
    ASSUME IInv, DispatchInv, CallsAreQueued, [PipelineNext]_pipelineVars
    PROVE  CallsAreQueued'
  <1> SUFFICES ASSUME NEW e \in Events, NEW c \in DOMAIN Calls[e], handled'[e][c] > 0,
                      Calls[e][c] \in Personal
               PROVE  \E n \in RowsOf[e] : row'[n] # "absent"
    BY DEF CallsAreQueued
  <1>1. RowsOf[e] \subseteq Rows
    BY PipelineAssumption
  <1>2. CASE handled'[e][c] = handled[e][c]
    BY <1>1, <1>2, RowsStay DEF CallsAreQueued
  <1>3. CASE handled'[e][c] # handled[e][c]
    <2>1. PICK r \in Replicas, d \in Events : CallArrives(r, d)
      BY <1>3 DEF PipelineNext, CallIsLost, CallFails, Commit, Age, RelayStep, FaultStep, Tick,
         Reclaim, Fetch, Mark, RecordProcessed, RecordFailed, Unlock, QueryFails, TickUnanswered,
         MarkUnanswered, ProcessedUnanswered, ConnectionCloses, Crash, relayVars, pipelineVars
    <2>2. at[r] \in DOMAIN Calls[d] /\ handled' = [handled EXCEPT ![d][at[r]] = @ + 1]
          /\ HandleEvent(r, d)
      BY <2>1 DEF CallArrives, CallSucceeds, CallFails
    <2>3. d = e /\ at[r] = c
      BY <1>3, <2>2, HandledOnceMore DEF IInv
    <2>4. PICK n \in RowsOf[e] : Enqueue(n)
      BY <2>2, <2>3 DEF HandleEvent, NamesAUser
    <2>5. row'[n] = "queued"
      BY <1>1, <2>4 DEF Enqueue, DispatchInv, DispatchType
    <2> QED
      BY <2>5
  <1> QED
    BY <1>2, <1>3

\* The two services agree: what the auction service has marked as processed is
\* in the monolith's queue, whichever of them failed or started again meanwhile.
THEOREM ProcessedQueued == PipelineSpec => []ProcessedIsQueued
  <1>1. PipelineInit => CallsAreQueued
    BY RelayAssumption DEF PipelineInit, Init, CallsAreQueued
  <1>2. IInv /\ CallsAreQueued => ProcessedIsQueued
    BY DEF IInv, ProcessedWasDelivered, CallsAreQueued, ProcessedIsQueued
  <1> QED
    BY <1>1, <1>2, CallsAreQueuedStep, RelayInPipeline, DispatchInvHolds, PTL DEF PipelineSpec

=============================================================================
