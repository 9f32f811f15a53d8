-------------------------- MODULE LspSession_proofs --------------------------
(***************************************************************************)
(* Proofs about a language-server session, for any number of messages in   *)
(* any order.                                                              *)
(***************************************************************************)
EXTENDS LspSession, TLAPS

\* The creates a session may have sent: one for the harvest, one for bootstrap
\* and one for each reload taken up, the announced one not yet counted.
Budget == IF job = "harvest" THEN 1 ELSE done + 2

WithinBudget ==
    /\ Len(sent) <= MaxSent
    /\ seq <= Budget
    /\ mode = "announce" => seq < Budget
    /\ mode = "window" => seq > 0
    /\ mode = "register" => job = "harvest"
    /\ mode \in {"loop", "handshake"} => job # "harvest"

\* An unanswered create has no verdict, a sent answer is the verdict, and a
\* create not yet sent has neither verdict nor progress.
VerdictsAreAnswers ==
    /\ \A t \in asked \cap Tokens : t <= seq /\ verdict[t] = "none"
    /\ \A k \in 1..Len(sent) :
         IsResponse(sent[k]) /\ sent[k].of \in Tokens => verdict[sent[k].of] = sent[k].kind
    /\ \A t \in Tokens : t > seq => verdict[t] = "none" /\ progress[t] = "none"

\* A token is open exactly while its job runs.
OpenWhileWorking ==
    /\ \A t \in Tokens : progress[t] = "begun" => mode = "work" /\ token = t
    /\ mode = "work" /\ token # 0 => progress[token] = "begun"

\* A session-ender is taken up only by going into the handshake or stopping,
\* and the handshake is entered only by taking up a shutdown.
EndersEnd ==
    /\ mode \notin {"handshake", "stopped"} =>
         \A k \in 1..Len(sent) : k <= done => ~EndsTheSession(sent[k])
    /\ mode = "handshake" => \E k \in 1..Len(sent) : k <= done /\ sent[k].kind = "shutdown"

\* Until it stops, and in the ends that owe the client nothing, the session has
\* answered every request it took up; until it stops it has taken up no exit.
Settled ==
    /\ outcome = "running" <=> mode # "stopped"
    /\ outcome \in {"running", "clean", "hung up"} =>
         \A k \in 1..Len(sent) : k <= done /\ IsRequest(sent[k]) => k \in replied
    /\ mode # "stopped" => \A k \in 1..Len(sent) : k <= done => sent[k].kind # "exit"
    /\ outcome = "exit first" => done # 0

\* The queue part of the inductive invariant, and the whole of it.
Ordered == TypeOK /\ WithinBudget /\ InArrivalOrder
IInv == Ordered /\ VerdictsAreAnswers /\ ReportsUnderAcceptedTokens
                /\ OpenWhileWorking /\ EndersEnd

------------------------------------------------------------------------------
(* What a step may do to the transport and the queue.                      *)

Heard(m)    == sent' = Append(sent, m) /\ UNCHANGED <<next, pending, done>>
QueueStill  == UNCHANGED <<sent, next, pending, done>>
Discarded   == /\ OnWire /\ IsResponse(Arrived)
               /\ next' = next + 1
               /\ UNCHANGED <<sent, pending, done>>
Queued      == /\ OnWire /\ ~IsResponse(Arrived)
               /\ pending' = Append(pending, next)
               /\ next' = next + 1
               /\ UNCHANGED <<sent, done>>
TakenUp(i)  == Take(i) /\ done' = i /\ UNCHANGED sent
Dropped(i)  == Take(i) /\ IsResponse(sent[i]) /\ UNCHANGED <<sent, done>>

\* A message and its fields.
LEMMA MessageFields ==
    ASSUME NEW m \in Message
    PROVE  /\ m.kind \in Said \cup Answers
           /\ m.of \in Tokens \cup {0}
           /\ m.kind \in Said => m.of = 0
BY DEF Message, Watchers, Said, Answers

\* A request or notification is no response.
LEMMA SaidIsNoResponse ==
    ASSUME NEW m
    PROVE  m.kind \in Said => ~IsResponse(m)
BY DEF Said, Answers, IsResponse

\* What the loop and the handshake do with message i.
LEMMA HandleSteps ==
    ASSUME NEW i \in 1..Len(sent), Handle(i)
    PROVE  /\ mode \in {"loop", "handshake"}
           /\ Take(i)
           /\ \/ Dropped(i) /\ mode' = mode
              \/ TakenUp(i)
           /\ UNCHANGED <<sent, connected, asked, token, seq, progress, verdict,
                          createUnanswered>>
           /\ job' = job \/ (job' = "reload" /\ mode' = "announce" /\ TakenUp(i))
<1>1. CASE LoopDropsResponse(i)
  BY <1>1 DEF LoopDropsResponse, Dropped, work, flags
<1>2. CASE LoopAnswersQuery(i)
  BY <1>2 DEF LoopAnswersQuery, TakenUp, work, flags
<1>3. CASE LoopReloads(i)
  BY <1>3 DEF LoopReloads, TakenUp, flags
<1>4. CASE LoopShutsDown(i)
  BY <1>4 DEF LoopShutsDown, TakenUp, work
<1>5. CASE LoopExitsUnannounced(i)
  BY <1>5 DEF LoopExitsUnannounced, TakenUp, work, flags
<1>6. CASE HandshakeExits(i)
  BY <1>6 DEF HandshakeExits, TakenUp, work, flags
<1>7. CASE HandshakeRepeats(i)
  BY <1>7 DEF HandshakeRepeats, TakenUp, work, flags
<1>8. CASE HandshakeFails(i)
  BY <1>8 DEF HandshakeFails, TakenUp, work, flags
<1>9. CASE ReplyFails(i)
  BY <1>9 DEF ReplyFails, TakenUp, work
<1>10. QED
  BY <1>1, <1>2, <1>3, <1>4, <1>5, <1>6, <1>7, <1>8, <1>9 DEF Handle

\* Every step is one of the six.
LEMMA QueueSteps ==
    ASSUME TypeOK, [Next]_vars
    PROVE  \/ \E m \in Message : Heard(m) /\ Len(sent) < MaxSent
           \/ QueueStill
           \/ Discarded
           \/ Queued
           \/ \E i \in 1..Len(sent) : Dropped(i) \/ TakenUp(i)
<1>1. CASE \E k \in Said : ClientSays(k)
  <2>1. PICK k \in Said : ClientSays(k)
    BY <1>1
  <2>2. [kind |-> k, of |-> 0] \in Message
    BY DEF Message
  <2>3. QED
    BY <2>1, <2>2 DEF ClientSays, Say, Heard, CanSend
<1>2. CASE \E a \in Answers, t \in asked : ClientAnswers(a, t)
  <2>1. PICK a \in Answers, t \in asked : ClientAnswers(a, t)
    BY <1>2
  <2>2. [kind |-> a, of |-> t] \in Message
    BY DEF Message, TypeOK
  <2>3. QED
    BY <2>1, <2>2 DEF ClientAnswers, Say, Heard, CanSend
<1>3. CASE ClientVanishes
  BY <1>3 DEF ClientVanishes, QueueStill
<1>4. CASE Jobs
  BY <1>4 DEF Jobs, AnnounceSilently, OpenWindow, CreateToken, CreateFails,
              WindowAnswered, WindowDiscards, WindowQueues, WindowTimesOut, JobEnds,
              ReloadPublishFails, RegisterWatchers, wire, QueueStill, Discarded, Queued
<1>5. CASE \E i \in 1..Len(sent) : Handle(i)
  BY <1>5, HandleSteps
<1>6. CASE LoopDisconnects \/ HandshakeTimesOut
  BY <1>6 DEF LoopDisconnects, HandshakeTimesOut, wire, QueueStill
<1>7. CASE UNCHANGED vars
  BY <1>7 DEF vars, wire, QueueStill
<1>8. QED
  BY <1>1, <1>2, <1>3, <1>4, <1>5, <1>6, <1>7 DEF Next, Client, Server, Over

\* The message taken is the first one not taken up, and the queue it leaves is
\* in order behind it.
LEMMA TakeFacts ==
    ASSUME TypeOK, InArrivalOrder, NEW i \in 1..Len(sent), Take(i)
    PROVE  /\ i \in Nat /\ done < i /\ i < next'
           /\ next' \in 1..(Len(sent) + 1)
           /\ pending' \in Seq(1..Len(sent))
           /\ \A k \in 1..Len(sent) : done < k /\ k < i => IsResponse(sent[k])
           /\ \A k \in 1..(next' - 1) : ~IsResponse(sent[k]) /\ i < k
                 => \E j \in 1..Len(pending') : pending'[j] = k
           /\ \A j \in 1..Len(pending') :
                 i < pending'[j] /\ pending'[j] < next' /\ ~IsResponse(sent[pending'[j]])
           /\ \A j, l \in 1..Len(pending') : j < l => pending'[j] < pending'[l]
<1>0. Len(sent) \in Nat /\ done \in Nat /\ next \in Nat /\ pending \in Seq(1..Len(sent))
  <2>1. sent \in Seq(Message) /\ next \in 1..(Len(sent) + 1) /\ done \in 0..Len(sent)
        /\ pending \in Seq(1..Len(sent))
    BY DEF TypeOK
  <2>2. Len(sent) \in Nat
    BY <2>1
  <2>3. QED
    BY <2>1, <2>2
<1>1. CASE pending # <<>> /\ i = Head(pending) /\ pending' = Tail(pending) /\ UNCHANGED next
  <2>1. /\ Len(pending) \in Nat \ {0} /\ Len(pending') = Len(pending) - 1
        /\ \A j \in 1..Len(pending') : pending'[j] = pending[j + 1]
        /\ i = pending[1]
        /\ pending' \in Seq(1..Len(sent))
    BY <1>0, <1>1
  <2>2. 1 \in 1..Len(pending) /\ \A j \in 1..Len(pending') : j + 1 \in 1..Len(pending)
    BY <2>1
  <2>3. done < i /\ i < next
    BY <2>1, <2>2 DEF InArrivalOrder
  <2>4. \A k \in 1..(next - 1) : ~IsResponse(sent[k]) /\ done < k
           => k = i \/ (i < k /\ \E j \in 1..Len(pending') : pending'[j] = k)
    <3>1. SUFFICES ASSUME NEW k \in 1..(next - 1), ~IsResponse(sent[k]), done < k, k # i
                   PROVE  i < k /\ \E j \in 1..Len(pending') : pending'[j] = k
      OBVIOUS
    <3>2. PICK j \in 1..Len(pending) : pending[j] = k
      BY <3>1 DEF InArrivalOrder
    <3>3. j # 1
      BY <2>1, <3>1, <3>2
    <3>4. j - 1 \in 1..Len(pending') /\ pending'[j - 1] = k
      BY <2>1, <3>2, <3>3
    <3>5. pending[1] < pending[j]
      BY <2>2, <3>3 DEF InArrivalOrder
    <3>6. QED
      BY <2>1, <3>2, <3>4, <3>5
  <2>5. \A k \in 1..Len(sent) : done < k /\ k < i => IsResponse(sent[k])
    BY <1>0, <2>3, <2>4
  <2>6. \A j \in 1..Len(pending') : i < pending'[j]
    BY <2>1, <2>2 DEF InArrivalOrder
  <2>7. /\ \A j \in 1..Len(pending') : pending'[j] < next /\ ~IsResponse(sent[pending'[j]])
        /\ \A j, l \in 1..Len(pending') : j < l => pending'[j] < pending'[l]
    <3>1. ASSUME NEW j \in 1..Len(pending')
          PROVE  pending'[j] < next /\ ~IsResponse(sent[pending'[j]])
      <4>1. j + 1 \in 1..Len(pending) /\ pending'[j] = pending[j + 1]
        BY <2>1, <2>2
      <4>2. QED
        BY <4>1 DEF InArrivalOrder
    <3>2. ASSUME NEW j \in 1..Len(pending'), NEW l \in 1..Len(pending'), j < l
          PROVE  pending'[j] < pending'[l]
      <4>1. j + 1 \in 1..Len(pending) /\ l + 1 \in 1..Len(pending) /\ j + 1 < l + 1
        BY <2>1, <3>2
      <4>2. QED
        BY <2>1, <4>1 DEF InArrivalOrder
    <3>3. QED
      BY <3>1, <3>2
  <2>8. next' = next /\ next \in 1..(Len(sent) + 1)
    BY <1>1 DEF TypeOK
  <2>9. \A k \in 1..(next' - 1) : ~IsResponse(sent[k]) /\ i < k
                 => \E j \in 1..Len(pending') : pending'[j] = k
    BY <1>0, <2>3, <2>4, <2>8
  <2>10. QED
    BY <2>1, <2>3, <2>5, <2>6, <2>7, <2>8, <2>9
<1>2. CASE pending = <<>> /\ OnWire /\ i = next /\ next' = next + 1 /\ UNCHANGED pending
  <2>1. Len(pending) = 0 /\ Len(pending') = 0 /\ pending' \in Seq(1..Len(sent))
    BY <1>0, <1>2
  <2>2. done < next /\ next <= Len(sent)
    BY <1>2 DEF InArrivalOrder, OnWire
  <2>3. \A k \in 1..Len(sent) : done < k /\ k < i => IsResponse(sent[k])
    BY <1>0, <1>2, <2>1 DEF InArrivalOrder
  <2>4. QED
    BY <1>0, <1>2, <2>1, <2>2, <2>3
<1>3. QED
  BY <1>1, <1>2 DEF Take

\* The typing of the transport and the queue.
QueueTyped ==
    /\ sent \in Seq(Message)
    /\ next \in 1..(Len(sent) + 1)
    /\ pending \in Seq(1..Len(sent))
    /\ done \in 0..Len(sent)

\* Saying something leaves all that was said before in place.
LEMMA HeardFacts ==
    ASSUME sent \in Seq(Message), NEW m \in Message, sent' = Append(sent, m)
    PROVE  /\ sent' \in Seq(Message)
           /\ Len(sent) \in Nat /\ Len(sent') = Len(sent) + 1
           /\ \A k \in 1..Len(sent) : sent'[k] = sent[k]
           /\ sent'[Len(sent) + 1] = m
           /\ 1..Len(sent') = 1..Len(sent) \cup {Len(sent) + 1}
<1>1. /\ sent' \in Seq(Message)
      /\ Len(sent) \in Nat /\ Len(sent') = Len(sent) + 1
      /\ \A k \in 1..Len(sent) : sent'[k] = sent[k]
      /\ sent'[Len(sent) + 1] = m
  OBVIOUS
<1>2. QED
  BY <1>1

\* Every step keeps the queue typed and in arrival order.
LEMMA OrderKept ==
    ASSUME TypeOK, InArrivalOrder, [Next]_vars
    PROVE  QueueTyped' /\ InArrivalOrder'
<1>0. /\ sent \in Seq(Message) /\ next \in 1..(Len(sent) + 1)
      /\ pending \in Seq(1..Len(sent)) /\ done \in 0..Len(sent)
      /\ Len(sent) \in Nat /\ Len(pending) \in Nat /\ next \in Nat /\ done \in Nat
  <2>1. /\ sent \in Seq(Message) /\ next \in 1..(Len(sent) + 1)
        /\ pending \in Seq(1..Len(sent)) /\ done \in 0..Len(sent)
    BY DEF TypeOK
  <2>2. Len(sent) \in Nat /\ Len(pending) \in Nat
    BY <2>1
  <2>3. QED
    BY <2>1, <2>2
<1>1. ASSUME NEW m \in Message, Heard(m)
      PROVE  QueueTyped' /\ InArrivalOrder'
  <2>1. /\ sent' \in Seq(Message) /\ Len(sent') = Len(sent) + 1
        /\ \A k \in 1..Len(sent) : sent'[k] = sent[k]
        /\ next' = next /\ pending' = pending /\ done' = done
    BY <1>0, <1>1, HeardFacts DEF Heard
  <2>2. \A j \in 1..Len(pending) : pending[j] \in 1..Len(sent)
    BY <1>0
  <2>3. \A k \in 1..Len(sent) : IsResponse(sent[k])' = IsResponse(sent[k])
    BY <2>1 DEF IsResponse
  <2>4. QueueTyped'
    BY <1>0, <2>1, <2>2 DEF QueueTyped
  <2>5. \A k \in 1..(next - 1) : k \in 1..Len(sent)
    BY <1>0
  <2>6. InArrivalOrder'
    BY <1>0, <2>1, <2>2, <2>3, <2>5 DEF InArrivalOrder
  <2>7. QED
    BY <2>4, <2>6
<1>2. CASE QueueStill
  BY <1>0, <1>2 DEF QueueStill, QueueTyped, InArrivalOrder, IsResponse
<1>3. CASE Discarded
  <2>1. /\ next <= Len(sent) /\ IsResponse(sent[next]) /\ next' = next + 1
        /\ sent' = sent /\ pending' = pending /\ done' = done
    BY <1>3 DEF Discarded, OnWire, Arrived
  <2>2. \A k \in 1..(next' - 1) : k \in 1..(next - 1) \/ k = next
    BY <1>0, <2>1
  <2>3. QueueTyped'
    BY <1>0, <2>1 DEF QueueTyped
  <2>4. /\ done < next + 1
        /\ \A j \in 1..Len(pending) : pending[j] < next + 1
    BY <1>0 DEF InArrivalOrder
  <2>5. InArrivalOrder'
    BY <2>1, <2>2, <2>4 DEF InArrivalOrder, IsResponse
  <2>6. QED
    BY <2>3, <2>5
<1>4. CASE Queued
  <2>1. /\ next <= Len(sent) /\ ~IsResponse(sent[next]) /\ next' = next + 1
        /\ sent' = sent /\ pending' = Append(pending, next) /\ done' = done
    BY <1>4 DEF Queued, OnWire, Arrived
  <2>2. next \in 1..Len(sent)
    BY <1>0, <2>1
  <2>3. /\ pending' \in Seq(1..Len(sent)) /\ Len(pending') = Len(pending) + 1
        /\ pending'[Len(pending) + 1] = next
        /\ \A j \in 1..Len(pending) : pending'[j] = pending[j]
    BY <1>0, <2>1, <2>2
  <2>4. QueueTyped'
    BY <1>0, <2>1, <2>2, <2>3 DEF QueueTyped
  <2>5. \A j \in 1..Len(pending') : j \in 1..Len(pending) \/ j = Len(pending) + 1
    BY <1>0, <2>3
  <2>6. \A k \in 1..(next' - 1) : k \in 1..(next - 1) \/ k = next
    BY <1>0, <2>1
  <2>7. done < next /\ \A j \in 1..Len(pending) : pending[j] \in Nat
    BY <1>0 DEF InArrivalOrder
  <2>8. \A k \in 1..(next' - 1) : ~IsResponse(sent[k]) /\ done < k
           => \E j \in 1..Len(pending') : pending'[j] = k
    <3>1. /\ Len(pending) + 1 \in 1..Len(pending')
          /\ \A j \in 1..Len(pending) : j \in 1..Len(pending')
      BY <1>0, <2>3
    <3>2. QED
      BY <2>3, <2>6, <3>1 DEF InArrivalOrder
  <2>9. \A j \in 1..Len(pending') :
           done < pending'[j] /\ pending'[j] < next' /\ ~IsResponse(sent[pending'[j]])
    <3>1. SUFFICES ASSUME NEW j \in 1..Len(pending')
                   PROVE  /\ done < pending'[j] /\ pending'[j] < next'
                          /\ ~IsResponse(sent[pending'[j]])
      OBVIOUS
    <3>2. CASE j \in 1..Len(pending)
      <4>1. /\ done < pending[j] /\ pending[j] < next /\ ~IsResponse(sent[pending[j]])
            /\ pending'[j] = pending[j] /\ pending[j] \in Nat
        BY <2>3, <2>7, <3>2 DEF InArrivalOrder
      <4>2. QED
        BY <1>0, <2>1, <4>1
    <3>3. CASE j = Len(pending) + 1
      BY <1>0, <2>1, <2>3, <2>7, <3>3
    <3>4. QED
      BY <2>5, <3>2, <3>3
  <2>10. \A j, l \in 1..Len(pending') : j < l => pending'[j] < pending'[l]
    <3>1. SUFFICES ASSUME NEW j \in 1..Len(pending'), NEW l \in 1..Len(pending'), j < l
                   PROVE  pending'[j] < pending'[l]
      OBVIOUS
    <3>2. j \in 1..Len(pending)
      BY <1>0, <2>3, <3>1
    <3>3. QED
      BY <2>3, <2>5, <3>1, <3>2 DEF InArrivalOrder
  <2>11. InArrivalOrder'
    BY <1>0, <2>1, <2>7, <2>8, <2>9, <2>10 DEF InArrivalOrder, IsResponse
  <2>12. QED
    BY <2>4, <2>11
<1>5. ASSUME NEW i \in 1..Len(sent), TakenUp(i)
      PROVE  QueueTyped' /\ InArrivalOrder'
  <2>1. Take(i) /\ done' = i /\ sent' = sent
    BY <1>5 DEF TakenUp
  <2>2. /\ i \in Nat /\ i < next'
        /\ next' \in 1..(Len(sent) + 1)
        /\ pending' \in Seq(1..Len(sent))
        /\ \A k \in 1..(next' - 1) : ~IsResponse(sent[k]) /\ i < k
              => \E j \in 1..Len(pending') : pending'[j] = k
        /\ \A j \in 1..Len(pending') :
              i < pending'[j] /\ pending'[j] < next' /\ ~IsResponse(sent[pending'[j]])
        /\ \A j, l \in 1..Len(pending') : j < l => pending'[j] < pending'[l]
    BY <2>1, TakeFacts
  <2>3. QueueTyped'
    BY <1>0, <2>1, <2>2 DEF QueueTyped
  <2>4. InArrivalOrder'
    BY <2>1, <2>2 DEF InArrivalOrder, IsResponse
  <2>5. QED
    BY <2>3, <2>4
<1>6. ASSUME NEW i \in 1..Len(sent), Dropped(i)
      PROVE  QueueTyped' /\ InArrivalOrder'
  <2>1. Take(i) /\ IsResponse(sent[i]) /\ sent' = sent /\ done' = done
    BY <1>6 DEF Dropped
  <2>2. pending = <<>>
    <3>1. SUFFICES ASSUME pending # <<>>
                   PROVE  FALSE
      OBVIOUS
    <3>2. i = pending[1] /\ 1 \in 1..Len(pending)
      BY <1>0, <2>1, <3>1 DEF Take
    <3>3. QED
      BY <2>1, <3>2 DEF InArrivalOrder
  <2>3. OnWire /\ IsResponse(Arrived) /\ next' = next + 1 /\ UNCHANGED pending
    BY <2>1, <2>2 DEF Take, Arrived
  <2>4. QED
    BY <1>3, <2>1, <2>3 DEF Discarded
<1>7. QED
  BY <1>1, <1>2, <1>3, <1>4, <1>5, <1>6, QueueSteps

\* The typing of what the server knows besides its queue.
WorkTyped ==
    /\ connected \in BOOLEAN
    /\ asked \subseteq Tokens \cup {Watchers}
    /\ mode \in {"announce", "window", "work", "register", "loop", "handshake", "stopped"}
    /\ job \in {"harvest", "bootstrap", "reload"}
    /\ token \in Tokens \cup {0}
    /\ seq \in Tokens \cup {0}
    /\ verdict \in [Tokens -> Answers \cup {"none"}]
    /\ progress \in [Tokens -> {"none", "begun", "ended"}]
    /\ createUnanswered \in BOOLEAN
    /\ shuttingDown \in BOOLEAN
    /\ outcome \in {"running", "clean", "exit first", "hung up", "unexpected",
                    "no exit", "no transport"}

\* What the typing says of the counters the queue's lemmas reckon with, in the
\* form the arithmetic needs.
LEMMA Numbers ==
    ASSUME TypeOK
    PROVE  /\ WorkTyped
           /\ sent \in Seq(Message) /\ Len(sent) \in Nat
           /\ done \in Nat /\ done <= Len(sent)
           /\ MaxSent \in Nat /\ seq \in Nat
           /\ \A t \in Tokens : t \in Nat \ {0}
           /\ \A t \in Nat : t > 0 /\ t <= MaxSent + 2 => t \in Tokens
<1>1. WorkTyped
  BY DEF TypeOK, WorkTyped
<1>2. sent \in Seq(Message) /\ done \in 0..Len(sent) /\ seq \in Tokens \cup {0}
  BY DEF TypeOK
<1>3. Len(sent) \in Nat
  BY <1>2
<1>4. MaxSent \in Nat
  BY SessionAssumption
<1>5. /\ \A t \in Tokens : t \in Nat \ {0}
      /\ \A t \in Nat : t > 0 /\ t <= MaxSent + 2 => t \in Tokens
  BY <1>4 DEF Tokens
<1>6. QED
  BY <1>1, <1>2, <1>3, <1>4, <1>5

\* An open window is for a token.
LEMMA WindowToken ==
    ASSUME TypeOK, WithinBudget, mode = "window"
    PROVE  seq \in Tokens
<1>1. seq > 0
  BY DEF WithinBudget
<1>2. seq \in Tokens \cup {0}
  BY DEF TypeOK
<1>3. QED
  BY <1>1, <1>2

\* There is always a token left for the create about to be sent.
LEMMA TokenLeft ==
    ASSUME TypeOK, WithinBudget, mode = "announce"
    PROVE  seq + 1 \in Tokens /\ seq + 1 <= Budget /\ seq + 1 > 0
<1>1. seq < Budget /\ Len(sent) <= MaxSent
  BY DEF WithinBudget
<1>2. Budget \in Nat /\ Budget <= MaxSent + 2
  BY <1>1, Numbers DEF Budget
<1>3. QED
  BY <1>1, <1>2, Numbers

\* A job's steps keep it typed and within its budget.
LEMMA JobsTyped ==
    ASSUME TypeOK, WithinBudget, Jobs
    PROVE  WorkTyped' /\ WithinBudget' /\ replied' = replied /\ sent' = sent
<1>0. /\ WorkTyped /\ Len(sent) <= MaxSent /\ done \in Nat /\ seq \in Nat
      /\ sent \in Seq(Message) /\ Len(sent) \in Nat
  BY Numbers DEF WithinBudget
<1>1. CASE AnnounceSilently
  <2>1. SessionIsEnding \in BOOLEAN
    BY DEF SessionIsEnding, TypeOK
  <2>2. QED
    BY <1>0, <1>1, <2>1 DEF AnnounceSilently, WithinBudget, Budget, WorkTyped, wire
<1>2. CASE OpenWindow
  <2>1. /\ mode = "announce" /\ seq' = seq + 1 /\ asked' = asked \cup {seq + 1}
        /\ mode' = "window"
        /\ UNCHANGED <<sent, connected, done, job, token, progress, verdict,
                       createUnanswered, shuttingDown, replied, outcome>>
    BY <1>2 DEF OpenWindow, CreateToken, wire, flags
  <2>2. seq + 1 \in Tokens /\ seq + 1 <= Budget /\ seq + 1 > 0
    BY <2>1, TokenLeft
  <2>3. QED
    BY <1>0, <2>1, <2>2 DEF WithinBudget, Budget, WorkTyped
<1>3. CASE CreateFails
  <2>1. seq + 1 \in Tokens /\ seq + 1 <= Budget /\ seq + 1 > 0
    BY <1>3, TokenLeft DEF CreateFails
  <2>2. QED
    BY <1>0, <1>3, <2>1 DEF CreateFails, wire, flags, WithinBudget, Budget, WorkTyped
<1>4. CASE WindowAnswered
  <2>1. seq \in Tokens /\ seq \in Tokens \cup {0}
    BY <1>4, WindowToken DEF WindowAnswered
  <2>2. QED
    BY <1>0, <1>4, <2>1
    DEF WindowAnswered, StartWork, flags, WithinBudget, Budget, WorkTyped
<1>5. CASE WindowDiscards
  BY <1>0, <1>5 DEF WindowDiscards, flags, work, WithinBudget, Budget, WorkTyped
<1>6. CASE WindowQueues
  BY <1>0, <1>6 DEF WindowQueues, StartWork, work, WithinBudget, Budget, WorkTyped
<1>7. CASE WindowTimesOut
  <2>1. seq \in Tokens
    BY <1>7, WindowToken DEF WindowTimesOut
  <2>2. QED
    BY <1>0, <1>7, <2>1 DEF WindowTimesOut, StartWork, wire, WithinBudget, Budget, WorkTyped
<1>8. CASE JobEnds
  BY <1>0, <1>8 DEF JobEnds, flags, wire, WithinBudget, Budget, WorkTyped
<1>9. CASE ReloadPublishFails
  BY <1>0, <1>9 DEF ReloadPublishFails, flags, wire, WithinBudget, Budget, WorkTyped
<1>10. CASE RegisterWatchers
  <2>1. /\ mode = "register" /\ mode' = "announce" /\ job' = "bootstrap"
        /\ UNCHANGED <<sent, connected, done, token, seq, progress, verdict,
                       createUnanswered, shuttingDown, replied, outcome>>
        /\ asked' \subseteq asked \cup {Watchers}
    BY <1>10 DEF RegisterWatchers, flags, wire
  <2>2. job = "harvest" /\ seq <= 1
    BY <2>1 DEF WithinBudget, Budget
  <2>3. seq < done + 2
    BY <1>0, <2>2
  <2>4. WorkTyped'
    BY <1>0, <2>1 DEF WorkTyped
  <2>5. WithinBudget'
    BY <1>0, <2>1, <2>2, <2>3 DEF WithinBudget, Budget
  <2>6. QED
    BY <2>1, <2>4, <2>5
<1>11. QED
  BY <1>1, <1>2, <1>3, <1>4, <1>5, <1>6, <1>7, <1>8, <1>9, <1>10 DEF Jobs

\* A later message has a larger budget.
LEMMA BudgetGrows ==
    ASSUME NEW a \in Nat, NEW b \in Nat, NEW c \in Nat, a <= b + 2, b <= c
    PROVE  a <= c + 2 /\ (b < c => a < c + 2)
OBVIOUS

\* So do the loop's and the handshake's.
LEMMA HandleTyped ==
    ASSUME TypeOK, WithinBudget, InArrivalOrder, NEW i \in 1..Len(sent), Handle(i)
    PROVE  WorkTyped' /\ WithinBudget' /\ replied' \subseteq 1..Len(sent) /\ sent' = sent
<1>0. /\ Len(sent) <= MaxSent /\ done \in Nat /\ seq \in Nat /\ Len(sent) \in Nat
      /\ done < i /\ i \in Nat
      /\ mode \in {"loop", "handshake"}
      /\ UNCHANGED <<sent, connected, asked, token, seq, progress, verdict, createUnanswered>>
  BY TakeFacts, HandleSteps, Numbers DEF WithinBudget
<1>1. job # "harvest" /\ seq <= done + 2
  BY <1>0 DEF WithinBudget, Budget
<1>2. /\ shuttingDown' \in BOOLEAN
      /\ replied' \subseteq 1..Len(sent)
      /\ mode' \in {"announce", "loop", "handshake", "stopped"}
      /\ outcome' \in {"running", "clean", "exit first", "hung up", "unexpected",
                    "no exit", "no transport"}
  BY <1>0 DEF Handle, LoopDropsResponse, LoopAnswersQuery, LoopReloads, LoopShutsDown,
     LoopExitsUnannounced, HandshakeExits, HandshakeRepeats, HandshakeFails, ReplyFails,
     Stop, flags, work, TypeOK
<1>3. /\ job' \in {"bootstrap", "reload"} /\ done' \in Nat /\ done <= done'
      /\ mode' = "announce" => done < done'
  <2>1. job \in {"bootstrap", "reload"}
    BY <1>1 DEF TypeOK
  <2>2. QED
    BY <1>0, <2>1, HandleSteps DEF TakenUp, Dropped
<1>4. WorkTyped'
  <2>1. WorkTyped
    BY Numbers
  <2>2. QED
    BY <1>0, <1>2, <1>3, <2>1 DEF WorkTyped
<1>5. WithinBudget'
  <2>1. Budget' = done' + 2 /\ seq' = seq /\ sent' = sent
    BY <1>0, <1>3 DEF Budget
  <2>2. seq <= done' + 2 /\ (mode' = "announce" => seq < done' + 2)
    <3>1. done \in Nat /\ seq \in Nat /\ done' \in Nat /\ seq <= done + 2 /\ done <= done'
      BY <1>0, <1>1, <1>3
    <3>2. seq <= done' + 2 /\ (done < done' => seq < done' + 2)
      BY <3>1, BudgetGrows
    <3>3. QED
      BY <1>3, <3>2
  <2>3. job' # "harvest" /\ mode' # "window" /\ mode' # "register"
    BY <1>2, <1>3
  <2>4. QED
    BY <1>0, <2>1, <2>2, <2>3 DEF WithinBudget
<1>6. QED
  BY <1>0, <1>2, <1>4, <1>5

\* Every step keeps the session typed, its creates counted and its queue in order.
LEMMA OrderedKept ==
    ASSUME Ordered, [Next]_vars
    PROVE  Ordered'
<1>0. QueueTyped' /\ InArrivalOrder' /\ TypeOK /\ WithinBudget /\ InArrivalOrder
  BY OrderKept DEF Ordered
<1>1. ASSUME WorkTyped', WithinBudget', replied' \subseteq 1..Len(sent')
      PROVE  Ordered'
  BY <1>0, <1>1 DEF Ordered, TypeOK, WorkTyped, QueueTyped
<1>2. CASE Client
  <2>1. UNCHANGED <<mode, token, seq, job, progress, shuttingDown, createUnanswered,
                   outcome, done, replied>>
        /\ connected' \in BOOLEAN
        /\ asked' \subseteq asked
    BY <1>2 DEF Client, ClientSays, ClientAnswers, ClientVanishes, Say, work, flags,
                CanSend
  <2>2. verdict' \in [Tokens -> Answers \cup {"none"}]
    BY <1>0, <1>2 DEF Client, ClientSays, ClientAnswers, ClientVanishes, TypeOK
  <2>3. /\ Len(sent) <= Len(sent') /\ Len(sent') <= MaxSent
        /\ Len(sent) \in Nat /\ Len(sent') \in Nat
    <3>1. sent \in Seq(Message) /\ Len(sent) <= MaxSent /\ Len(sent) \in Nat /\ MaxSent \in Nat
      BY <1>0, Numbers DEF WithinBudget
    <3>2. CASE \E m : sent' = Append(sent, m) /\ Len(sent) < MaxSent
      <4>1. PICK m : sent' = Append(sent, m) /\ Len(sent) < MaxSent
        BY <3>2
      <4>2. Len(sent') = Len(sent) + 1
        BY <3>1, <4>1
      <4>3. QED
        BY <3>1, <4>1, <4>2
    <3>3. CASE sent' = sent
      BY <3>1, <3>3
    <3>4. QED
      BY <1>2, <3>2, <3>3
      DEF Client, ClientSays, ClientAnswers, ClientVanishes, Say, CanSend
  <2>4. WorkTyped'
    <3>1. WorkTyped
      BY <1>0, Numbers
    <3>2. QED
      BY <2>1, <2>2, <3>1 DEF WorkTyped
  <2>5. WithinBudget'
    BY <1>0, <2>1, <2>3 DEF WithinBudget, Budget
  <2>6. replied' \subseteq 1..Len(sent')
    <3>1. replied \subseteq 1..Len(sent)
      BY <1>0 DEF TypeOK
    <3>2. QED
      BY <2>1, <2>3, <3>1
  <2>7. QED
    BY <1>1, <2>4, <2>5, <2>6
<1>3. CASE Jobs
  BY <1>0, <1>1, <1>3, JobsTyped DEF TypeOK
<1>4. CASE \E i \in 1..Len(sent) : Handle(i)
  BY <1>0, <1>1, <1>4, HandleTyped
<1>5. CASE LoopDisconnects \/ HandshakeTimesOut
  BY <1>0, <1>1, <1>5 DEF LoopDisconnects, HandshakeTimesOut, Stop, wire, flags, work,
     TypeOK, WorkTyped, WithinBudget, Budget
<1>6. CASE UNCHANGED vars
  <2>1. UNCHANGED <<sent, connected, asked, done, mode, job, token, seq, progress, verdict,
                   createUnanswered, shuttingDown, replied, outcome>>
    BY <1>6 DEF vars, wire, flags, work
  <2>2. WorkTyped /\ replied \subseteq 1..Len(sent)
    BY <1>0, Numbers DEF TypeOK
  <2>3. WorkTyped'
    BY <2>1, <2>2 DEF WorkTyped
  <2>4. WithinBudget'
    BY <1>0, <2>1 DEF WithinBudget, Budget
  <2>5. QED
    BY <1>1, <2>1, <2>2, <2>3, <2>4
<1>7. QED
  BY <1>2, <1>3, <1>4, <1>5, <1>6 DEF Next, Server, Over

\* What the tokens' part of the invariant says.
TokensSound == VerdictsAreAnswers /\ ReportsUnderAcceptedTokens /\ OpenWhileWorking

\* A step that sends, answers and reports nothing.
LEMMA TokensUntouched ==
    ASSUME TokensSound,
           UNCHANGED <<sent, seq, verdict, progress, createUnanswered, token>>,
           asked' \subseteq asked \cup {Watchers},
           mode' = mode \/ (mode # "work" /\ mode' # "work")
    PROVE  TokensSound'
<1>1. \A t \in asked' \cap Tokens : t \in asked \cap Tokens
  BY SessionAssumption DEF Watchers, Tokens
<1>2. VerdictsAreAnswers'
  BY <1>1 DEF TokensSound, VerdictsAreAnswers, IsResponse
<1>3. ReportsUnderAcceptedTokens'
  BY DEF TokensSound, ReportsUnderAcceptedTokens
<1>4. OpenWhileWorking'
  BY DEF TokensSound, OpenWhileWorking
<1>5. QED
  BY <1>2, <1>3, <1>4 DEF TokensSound

\* A job starts: under no token, or under the last one, which was accepted or
\* waited out.
LEMMA TokensAtStart ==
    ASSUME TypeOK, TokensSound, NEW t \in Tokens \cup {0},
           UNCHANGED <<sent, asked, verdict>>,
           mode # "work", mode' = "work", token' = t,
           progress' = IF t = 0 THEN progress ELSE [progress EXCEPT ![t] = "begun"],
           seq' = seq \/ (seq' = seq + 1 /\ t = 0 /\ ~createUnanswered),
           createUnanswered => createUnanswered',
           t # 0 => t = seq /\ (verdict[t] = "accept" \/ createUnanswered')
    PROVE  TokensSound'
<1>0. /\ progress \in [Tokens -> {"none", "begun", "ended"}]
      /\ seq \in Nat /\ \A u \in Tokens : u \in Nat \ {0}
  BY Numbers DEF TypeOK
<1>1. /\ \A u \in Tokens : u # t => progress'[u] = progress[u]
      /\ t # 0 => progress'[t] = "begun"
      /\ 0 \notin Tokens
  BY <1>0
<1>2. VerdictsAreAnswers'
  <2>1. \A u \in asked \cap Tokens : u <= seq' /\ verdict[u] = "none"
    BY <1>0 DEF TokensSound, VerdictsAreAnswers
  <2>2. ASSUME NEW u \in Tokens, u > seq'
        PROVE  verdict[u] = "none" /\ progress'[u] = "none"
    <3>1. u > seq /\ u # t
      BY <1>0, <1>1, <2>2
    <3>2. QED
      BY <1>1, <3>1 DEF TokensSound, VerdictsAreAnswers
  <2>3. QED
    BY <2>1, <2>2 DEF TokensSound, VerdictsAreAnswers, IsResponse
<1>3. ReportsUnderAcceptedTokens'
  <2>1. SUFFICES ASSUME NEW u \in Tokens, progress'[u] # "none", verdict[u] # "accept"
                 PROVE  createUnanswered' /\ u = seq'
    BY DEF ReportsUnderAcceptedTokens
  <2>2. CASE u = t
    BY <1>1, <2>1, <2>2
  <2>3. CASE u # t
    BY <1>1, <2>1, <2>3 DEF TokensSound, ReportsUnderAcceptedTokens
  <2>4. QED
    BY <2>2, <2>3
<1>4. OpenWhileWorking'
  BY <1>1 DEF TokensSound, OpenWhileWorking
<1>5. QED
  BY <1>2, <1>3, <1>4 DEF TokensSound

\* A job ends: its token with it.
LEMMA TokensAtEnd ==
    ASSUME TypeOK, TokensSound,
           UNCHANGED <<sent, asked, verdict, seq, createUnanswered>>,
           mode = "work", mode' # "work",
           progress' = IF token = 0 THEN progress ELSE [progress EXCEPT ![token] = "ended"]
    PROVE  TokensSound'
<1>0. /\ progress \in [Tokens -> {"none", "begun", "ended"}]
      /\ token \in Tokens \cup {0} /\ 0 \notin Tokens
  BY Numbers DEF TypeOK
<1>1. /\ \A u \in Tokens : u # token => progress'[u] = progress[u]
      /\ token # 0 => progress'[token] = "ended" /\ progress[token] = "begun"
  BY <1>0 DEF TokensSound, OpenWhileWorking
<1>2. \A u \in Tokens : /\ progress'[u] # "begun"
                        /\ progress'[u] = "none" <=> progress[u] = "none"
  BY <1>0, <1>1 DEF TokensSound, OpenWhileWorking
<1>3. VerdictsAreAnswers'
  BY <1>2 DEF TokensSound, VerdictsAreAnswers, IsResponse
<1>4. ReportsUnderAcceptedTokens'
  BY <1>2 DEF TokensSound, ReportsUnderAcceptedTokens
<1>5. OpenWhileWorking'
  BY <1>2 DEF OpenWhileWorking
<1>6. QED
  BY <1>3, <1>4, <1>5 DEF TokensSound

\* The client speaks: only the answer to a create is about a token.
LEMMA TokensAtSpeech ==
    ASSUME TypeOK, TokensSound, Client
    PROVE  TokensSound'
<1>0. /\ UNCHANGED <<seq, progress, createUnanswered, token, mode>>
      /\ sent \in Seq(Message) /\ asked \subseteq Tokens \cup {Watchers}
      /\ verdict \in [Tokens -> Answers \cup {"none"}]
      /\ 0 \notin Tokens
  BY Numbers DEF Client, ClientSays, ClientAnswers, ClientVanishes, Say, work, flags, TypeOK
<1>1. ASSUME NEW k \in Said, ClientSays(k)
      PROVE  TokensSound'
  <2>1. /\ sent' = Append(sent, [kind |-> k, of |-> 0])
        /\ asked' = asked /\ verdict' = verdict
    BY <1>1 DEF ClientSays, Say
  <2>2. [kind |-> k, of |-> 0] \in Message
    BY DEF Message
  <2>3. VerdictsAreAnswers'
    <3>1. ASSUME NEW l \in 1..Len(sent'), IsResponse(sent'[l]), sent'[l].of \in Tokens
          PROVE  verdict'[sent'[l].of] = sent'[l].kind
      <4>1. CASE l \in 1..Len(sent)
        <5>1. sent'[l] = sent[l]
          BY <1>0, <2>1, <2>2, <4>1, HeardFacts
        <5>2. QED
          BY <2>1, <3>1, <4>1, <5>1 DEF TokensSound, VerdictsAreAnswers
      <4>2. CASE l = Len(sent) + 1
        <5>1. sent'[l] = [kind |-> k, of |-> 0]
          BY <1>0, <2>1, <2>2, <4>2, HeardFacts
        <5>2. QED
          BY <1>0, <3>1, <5>1
      <4>3. QED
        BY <1>0, <2>1, <2>2, <4>1, <4>2, HeardFacts
    <3>2. QED
      BY <1>0, <2>1, <3>1 DEF TokensSound, VerdictsAreAnswers, IsResponse
  <2>4. ReportsUnderAcceptedTokens' /\ OpenWhileWorking'
    BY <1>0, <2>1 DEF TokensSound, ReportsUnderAcceptedTokens, OpenWhileWorking
  <2>5. QED
    BY <2>3, <2>4 DEF TokensSound
<1>2. ASSUME NEW a \in Answers, NEW t \in asked, ClientAnswers(a, t)
      PROVE  TokensSound'
  <2>1. /\ sent' = Append(sent, [kind |-> a, of |-> t])
        /\ asked' = asked \ {t}
        /\ verdict' = IF t = Watchers THEN verdict ELSE [verdict EXCEPT ![t] = a]
    BY <1>2 DEF ClientAnswers, Say
  <2>2. [kind |-> a, of |-> t] \in Message
    BY <1>0 DEF Message
  <2>3. t = 0 \/ (t \in Tokens /\ t <= seq /\ verdict[t] = "none")
    BY <1>0 DEF TokensSound, VerdictsAreAnswers, Watchers
  <2>4. /\ \A u \in Tokens : u # t => verdict'[u] = verdict[u]
        /\ t \in Tokens => verdict'[t] = a
    BY <1>0, <2>1 DEF Watchers
  <2>5. VerdictsAreAnswers'
    <3>1. ASSUME NEW l \in 1..Len(sent'), IsResponse(sent'[l]), sent'[l].of \in Tokens
          PROVE  verdict'[sent'[l].of] = sent'[l].kind
      <4>1. CASE l \in 1..Len(sent)
        <5>1. sent'[l] = sent[l]
          BY <1>0, <2>1, <2>2, <4>1, HeardFacts
        <5>2. verdict[sent[l].of] = sent[l].kind /\ sent[l].kind \in Answers
          BY <3>1, <4>1, <5>1 DEF TokensSound, VerdictsAreAnswers, IsResponse
        <5>3. sent[l].of # t
          BY <1>0, <2>3, <3>1, <5>1, <5>2 DEF Answers
        <5>4. QED
          BY <2>4, <3>1, <5>1, <5>2, <5>3
      <4>2. CASE l = Len(sent) + 1
        <5>1. sent'[l] = [kind |-> a, of |-> t]
          BY <1>0, <2>1, <2>2, <4>2, HeardFacts
        <5>2. QED
          BY <2>4, <3>1, <5>1
      <4>3. QED
        BY <1>0, <2>1, <2>2, <4>1, <4>2, HeardFacts
    <3>2. \A u \in asked' \cap Tokens : u <= seq' /\ verdict'[u] = "none"
      BY <1>0, <2>1, <2>4 DEF TokensSound, VerdictsAreAnswers
    <3>3. ASSUME NEW u \in Tokens, u > seq'
          PROVE  verdict'[u] = "none" /\ progress'[u] = "none"
      <4>1. u # t
        <5>1. u \in Nat /\ seq \in Nat
          BY Numbers
        <5>2. QED
          BY <1>0, <2>3, <3>3, <5>1
      <4>2. QED
        BY <1>0, <2>4, <3>3, <4>1 DEF TokensSound, VerdictsAreAnswers
    <3>4. QED
      BY <3>1, <3>2, <3>3 DEF VerdictsAreAnswers, IsResponse
  <2>6. ReportsUnderAcceptedTokens'
    <3>1. SUFFICES ASSUME NEW u \in Tokens, progress'[u] # "none", verdict'[u] # "accept"
                   PROVE  createUnanswered' /\ u = seq'
      BY DEF ReportsUnderAcceptedTokens
    <3>2. verdict[u] # "accept"
      BY <1>0, <2>3, <2>4, <3>1
    <3>3. QED
      BY <1>0, <3>1, <3>2 DEF TokensSound, ReportsUnderAcceptedTokens
  <2>7. OpenWhileWorking'
    BY <1>0 DEF TokensSound, OpenWhileWorking
  <2>8. QED
    BY <2>5, <2>6, <2>7 DEF TokensSound
<1>3. CASE ClientVanishes
  <2>1. sent' = sent /\ verdict' = verdict /\ asked' = asked
    BY <1>3 DEF ClientVanishes
  <2>2. QED
    BY <1>0, <2>1, TokensUntouched
<1>4. QED
  BY <1>1, <1>2, <1>3 DEF Client

\* Every step keeps the tokens sound.
LEMMA TokensKept ==
    ASSUME Ordered, TokensSound, [Next]_vars
    PROVE  TokensSound'
<1>0. TypeOK /\ WithinBudget /\ 0 \notin Tokens
  BY Numbers DEF Ordered
<1>1. CASE Client
  BY <1>0, <1>1, TokensAtSpeech
<1>2. CASE AnnounceSilently
  BY <1>0, <1>2, TokensAtStart DEF AnnounceSilently, wire
<1>3. CASE OpenWindow
  <2>1. /\ mode = "announce" /\ ~createUnanswered /\ mode' = "window"
        /\ seq' = seq + 1 /\ asked' = asked \cup {seq + 1}
        /\ UNCHANGED <<sent, token, progress, verdict, createUnanswered>>
    BY <1>3 DEF OpenWindow, CreateToken, wire, flags
  <2>2. /\ seq + 1 \in Tokens /\ seq \in Nat /\ \A u \in Tokens : u \in Nat
    BY <1>0, <2>1, TokenLeft, Numbers
  <2>3. VerdictsAreAnswers'
    <3>1. \A u \in asked' \cap Tokens : u <= seq' /\ verdict[u] = "none"
      <4>1. verdict[seq + 1] = "none"
        BY <2>2 DEF TokensSound, VerdictsAreAnswers
      <4>2. \A u \in asked \cap Tokens : u <= seq + 1 /\ verdict[u] = "none"
        BY <2>2 DEF TokensSound, VerdictsAreAnswers
      <4>3. QED
        BY <2>1, <2>2, <4>1, <4>2
    <3>2. \A u \in Tokens : u > seq' => u > seq
      BY <2>1, <2>2
    <3>3. QED
      BY <2>1, <3>1, <3>2 DEF TokensSound, VerdictsAreAnswers, IsResponse
  <2>4. ReportsUnderAcceptedTokens' /\ OpenWhileWorking'
    BY <2>1 DEF TokensSound, ReportsUnderAcceptedTokens, OpenWhileWorking
  <2>5. QED
    BY <2>3, <2>4 DEF TokensSound
<1>4. CASE CreateFails
  BY <1>0, <1>4, TokensAtStart DEF CreateFails, wire, flags
<1>5. CASE WindowAnswered
  <2>1. /\ mode = "window" /\ next \in 1..Len(sent)
        /\ IsResponse(sent[next]) /\ sent[next].of = seq
        /\ StartWork(IF sent[next].kind = "accept" THEN seq ELSE 0)
        /\ UNCHANGED <<sent, asked, verdict, createUnanswered>>
    <3>1. next \in 1..(Len(sent) + 1) /\ Len(sent) \in Nat
      BY <1>0, Numbers DEF TypeOK
    <3>2. QED
      BY <1>5, <3>1 DEF WindowAnswered, OnWire, Arrived, flags
  <2>2. seq \in Tokens
    BY <1>0, <2>1, WindowToken
  <2>3. verdict[seq] = sent[next].kind
    BY <2>1, <2>2 DEF TokensSound, VerdictsAreAnswers
  <2>4. CASE sent[next].kind = "accept"
    BY <1>0, <2>1, <2>2, <2>3, <2>4, TokensAtStart DEF StartWork
  <2>5. CASE sent[next].kind # "accept"
    BY <1>0, <2>1, <2>5, TokensAtStart DEF StartWork
  <2>6. QED
    BY <2>4, <2>5
<1>6. CASE WindowQueues
  <2>1. CASE EndsTheSession(Arrived)
    BY <1>0, <1>6, <2>1, TokensAtStart DEF WindowQueues, StartWork
  <2>2. CASE ~EndsTheSession(Arrived)
    <3>1. UNCHANGED <<sent, seq, verdict, progress, createUnanswered, token, mode, asked>>
      BY <1>6, <2>2 DEF WindowQueues, work
    <3>2. QED
      BY <3>1, TokensUntouched
  <2>3. QED
    BY <2>1, <2>2
<1>7. CASE WindowTimesOut
  <2>1. seq \in Tokens
    BY <1>0, <1>7, WindowToken DEF WindowTimesOut
  <2>2. QED
    BY <1>0, <1>7, <2>1, TokensAtStart DEF WindowTimesOut, StartWork, wire
<1>8. CASE JobEnds \/ ReloadPublishFails
  BY <1>0, <1>8, TokensAtEnd DEF JobEnds, ReloadPublishFails, wire, flags
<1>9. CASE WindowDiscards \/ RegisterWatchers
  <2>1. /\ UNCHANGED <<sent, seq, verdict, progress, createUnanswered, token>>
        /\ asked' \subseteq asked \cup {Watchers}
        /\ mode' = mode \/ (mode # "work" /\ mode' # "work")
    BY <1>9 DEF WindowDiscards, RegisterWatchers, wire, work, flags
  <2>2. QED
    BY <2>1, TokensUntouched
<1>10. CASE \E i \in 1..Len(sent) : Handle(i)
  <2>1. PICK i \in 1..Len(sent) : Handle(i)
    BY <1>10
  <2>2. mode' # "work"
    BY <2>1 DEF Handle, LoopDropsResponse, LoopAnswersQuery, LoopReloads, LoopShutsDown,
       LoopExitsUnannounced, HandshakeExits, HandshakeRepeats, HandshakeFails,
       ReplyFails, Stop
  <2>3. mode # "work"
        /\ UNCHANGED <<sent, asked, token, seq, progress, verdict, createUnanswered>>
    BY <2>1, HandleSteps
  <2>4. QED
    BY <2>2, <2>3, TokensUntouched
<1>11. CASE LoopDisconnects \/ HandshakeTimesOut \/ UNCHANGED vars
  <2>1. /\ UNCHANGED <<sent, asked, seq, verdict, progress, createUnanswered, token>>
        /\ mode' = mode \/ (mode # "work" /\ mode' # "work")
    BY <1>11 DEF LoopDisconnects, HandshakeTimesOut, Stop, vars, wire, work, flags
  <2>2. QED
    BY <2>1, TokensUntouched
<1>12. QED
  BY <1>1, <1>2, <1>3, <1>4, <1>5, <1>6, <1>7, <1>8, <1>9, <1>10, <1>11
  DEF Next, Server, Jobs, Over

------------------------------------------------------------------------------
(* How a session ends.                                                     *)

\* Where taking up message i leads.
LEMMA HandleModes ==
    ASSUME NEW i \in 1..Len(sent), Handle(i)
    PROVE  /\ \/ /\ mode = "loop" /\ mode' \in {"loop", "announce"}
                 /\ Dropped(i) \/ (TakenUp(i) /\ ~EndsTheSession(sent[i]))
                 /\ outcome' = outcome
              \/ /\ mode' = "handshake" /\ TakenUp(i) /\ sent[i].kind = "shutdown"
                 /\ outcome' = outcome
              \/ /\ mode' = "stopped" /\ outcome' = "no transport"
              \/ /\ mode' = "stopped" /\ outcome' = "exit first" /\ mode = "loop"
                 /\ TakenUp(i) /\ sent[i].kind = "exit"
              \/ /\ mode' = "stopped" /\ outcome' = "clean" /\ mode = "handshake"
                 /\ TakenUp(i) /\ sent[i].kind = "exit"
              \/ /\ mode' = "stopped" /\ outcome' = "unexpected" /\ mode = "handshake"
                 /\ TakenUp(i) /\ ~EndsTheSession(sent[i])
           /\ replied \subseteq replied'
           /\ mode' # "stopped" /\ IsRequest(sent[i]) => i \in replied'
<1>1. CASE LoopDropsResponse(i)
  BY <1>1 DEF LoopDropsResponse, Dropped, IsResponse, IsRequest, Answers
<1>2. CASE LoopAnswersQuery(i)
  BY <1>2 DEF LoopAnswersQuery, TakenUp, EndsTheSession
<1>3. CASE LoopReloads(i)
  BY <1>3 DEF LoopReloads, TakenUp, EndsTheSession, IsRequest
<1>4. CASE LoopShutsDown(i)
  BY <1>4 DEF LoopShutsDown, TakenUp
<1>5. CASE LoopExitsUnannounced(i)
  BY <1>5 DEF LoopExitsUnannounced, TakenUp, Stop
<1>6. CASE HandshakeExits(i)
  BY <1>6 DEF HandshakeExits, TakenUp, Stop
<1>7. CASE HandshakeRepeats(i)
  BY <1>7 DEF HandshakeRepeats, TakenUp
<1>8. CASE HandshakeFails(i)
  BY <1>8 DEF HandshakeFails, TakenUp, Stop
<1>9. CASE ReplyFails(i)
  BY <1>9 DEF ReplyFails, Stop
<1>10. QED
  BY <1>1, <1>2, <1>3, <1>4, <1>5, <1>6, <1>7, <1>8, <1>9 DEF Handle

\* A step of a job stays in the jobs or stops for want of a transport, takes
\* nothing up and answers nothing.
LEMMA JobModes ==
    ASSUME Jobs
    PROVE  /\ UNCHANGED <<sent, done, replied>>
           /\ mode \notin {"handshake", "stopped"}
           /\ mode' # "handshake"
           /\ \/ outcome' = outcome /\ mode' # "stopped"
              \/ outcome' = "no transport" /\ mode' = "stopped"
BY DEF Jobs, AnnounceSilently, OpenWindow, CreateToken, CreateFails, WindowAnswered,
       WindowDiscards, WindowQueues, WindowTimesOut, JobEnds, ReloadPublishFails,
       RegisterWatchers, StartWork, wire, work

\* What the client says changes nothing of what it said before.
LEMMA ClientFacts ==
    ASSUME TypeOK, Client
    PROVE  /\ UNCHANGED <<next, done, mode, outcome, seq, replied>>
           /\ \A k \in 1..Len(sent) : k \in 1..Len(sent') /\ sent'[k] = sent[k]
           /\ \A k \in 1..Len(sent') : k <= Len(sent) => k \in 1..Len(sent)
<1>1. UNCHANGED <<next, done, mode, outcome, seq, replied>>
  BY DEF Client, ClientSays, ClientAnswers, ClientVanishes, Say, work
<1>2. sent \in Seq(Message) /\ Len(sent) \in Nat
  BY Numbers
<1>3. CASE \E m \in Message : Heard(m)
  <2>1. PICK m \in Message : Heard(m)
    BY <1>3
  <2>2. /\ 1..Len(sent') = 1..Len(sent) \cup {Len(sent) + 1}
        /\ \A k \in 1..Len(sent) : sent'[k] = sent[k]
    BY <1>2, <2>1, HeardFacts DEF Heard
  <2>3. QED
    BY <1>1, <1>2, <2>2
<1>4. CASE sent' = sent
  BY <1>1, <1>4
<1>5. \/ \E m \in Message : Heard(m)
      \/ sent' = sent
  BY QueueSteps DEF Next, QueueStill, Discarded, Queued, TakenUp, Dropped
<1>6. QED
  BY <1>3, <1>4, <1>5

\* No step takes a message past the one that ends the session: the loop leaves
\* with it (session.rs serve, on_exit).
LEMMA EndersKept ==
    ASSUME Ordered, EndersEnd, [Next]_vars
    PROVE  EndersEnd'
<1>0. TypeOK /\ InArrivalOrder /\ done \in Nat /\ done <= Len(sent) /\ Len(sent) \in Nat
  BY Numbers DEF Ordered
<1>1. CASE Client
  <2>1. /\ UNCHANGED <<done, mode>>
        /\ \A k \in 1..Len(sent) : k \in 1..Len(sent') /\ sent'[k] = sent[k]
        /\ \A k \in 1..Len(sent') : k <= Len(sent) => k \in 1..Len(sent)
    BY <1>0, <1>1, ClientFacts
  <2>2. \A k \in 1..Len(sent') : k <= done => k \in 1..Len(sent)
    <3>1. \A k \in Nat : k <= done => k <= Len(sent)
      BY <1>0
    <3>2. \A k \in 1..Len(sent') : k \in Nat
      OBVIOUS
    <3>3. QED
      BY <2>1, <3>1, <3>2
  <2>3. QED
    BY <2>1, <2>2 DEF EndersEnd, EndsTheSession
<1>2. CASE Jobs
  BY <1>2, JobModes DEF EndersEnd, EndsTheSession
<1>3. ASSUME NEW i \in 1..Len(sent), Handle(i)
      PROVE  EndersEnd'
  <2>1. CASE mode' = "stopped"
    BY <2>1 DEF EndersEnd
  <2>2. CASE mode' = "handshake" /\ TakenUp(i) /\ sent[i].kind = "shutdown"
    BY <2>2 DEF EndersEnd, TakenUp
  <2>3. CASE mode = "loop" /\ mode' \in {"loop", "announce"} /\ Dropped(i)
    BY <2>3 DEF EndersEnd, Dropped, EndsTheSession
  <2>4. CASE /\ mode = "loop" /\ mode' \in {"loop", "announce"}
             /\ TakenUp(i) /\ ~EndsTheSession(sent[i])
    <3>1. Take(i) /\ done' = i /\ sent' = sent
      BY <2>4 DEF TakenUp
    <3>2. i \in Nat /\ \A k \in 1..Len(sent) : done < k /\ k < i => IsResponse(sent[k])
      BY <1>0, <3>1, TakeFacts
    <3>3. ASSUME NEW k \in 1..Len(sent), k <= i
          PROVE  ~EndsTheSession(sent[k])
      <4>1. k <= done \/ (done < k /\ k < i) \/ k = i
        BY <1>0, <3>2, <3>3
      <4>2. CASE k <= done
        BY <2>4, <4>2 DEF EndersEnd
      <4>3. CASE done < k /\ k < i
        BY <3>2, <4>3 DEF IsResponse, EndsTheSession, Answers
      <4>4. QED
        BY <2>4, <4>1, <4>2, <4>3
    <3>4. QED
      BY <2>4, <3>1, <3>3 DEF EndersEnd, EndsTheSession
  <2>5. QED
    BY <1>3, <2>1, <2>2, <2>3, <2>4, HandleModes
<1>4. CASE LoopDisconnects \/ HandshakeTimesOut
  BY <1>4 DEF LoopDisconnects, HandshakeTimesOut, Stop, EndersEnd
<1>5. CASE UNCHANGED vars
  BY <1>5 DEF vars, wire, EndersEnd, EndsTheSession
<1>6. QED
  BY <1>1, <1>2, <1>3, <1>4, <1>5 DEF Next, Server, Over

\* Every step keeps the requests that were taken up answered: what lies between
\* one message taken up and the next is a response.
LEMMA SettledKept ==
    ASSUME Ordered, Settled, [Next]_vars
    PROVE  Settled'
<1>0. TypeOK /\ InArrivalOrder /\ done \in Nat /\ done <= Len(sent) /\ Len(sent) \in Nat
  BY Numbers DEF Ordered
<1>1. CASE Client
  <2>1. /\ UNCHANGED <<done, mode, outcome, replied>>
        /\ \A k \in 1..Len(sent) : sent'[k] = sent[k]
        /\ \A k \in 1..Len(sent') : k <= Len(sent) => k \in 1..Len(sent)
    BY <1>0, <1>1, ClientFacts
  <2>2. \A k \in 1..Len(sent') : k <= done => k \in 1..Len(sent)
    <3>1. \A k \in Nat : k <= done => k <= Len(sent)
      BY <1>0
    <3>2. \A k \in 1..Len(sent') : k \in Nat
      OBVIOUS
    <3>3. QED
      BY <2>1, <3>1, <3>2
  <2>3. QED
    BY <2>1, <2>2 DEF Settled, IsRequest
<1>2. CASE Jobs
  BY <1>2, JobModes DEF Settled, IsRequest
<1>3. ASSUME NEW i \in 1..Len(sent), Handle(i)
      PROVE  Settled'
  <2>1. mode # "stopped" /\ outcome = "running" /\ sent' = sent
    BY <1>3, HandleSteps DEF Settled
  <2>2. CASE Dropped(i) /\ mode' # "stopped"
    BY <1>3, <2>1, <2>2, HandleModes DEF Settled, Dropped, TakenUp, IsRequest
  <2>3. CASE TakenUp(i)
    <3>1. \A k \in 1..Len(sent) : k <= i => k <= done \/ IsResponse(sent[k]) \/ k = i
      <4>1. i \in Nat /\ \A k \in 1..Len(sent) : done < k /\ k < i => IsResponse(sent[k])
        BY <1>0, <2>3, TakeFacts DEF TakenUp
      <4>2. QED
        BY <1>0, <4>1
    <3>2. done' = i
      BY <2>3 DEF TakenUp
    <3>3. ASSUME outcome' \in {"running", "clean", "hung up"},
                 NEW k \in 1..Len(sent), k <= i, IsRequest(sent[k])
          PROVE  k \in replied'
      <4>1. k <= done \/ k = i
        BY <3>1, <3>3 DEF IsRequest, IsResponse, Answers
      <4>2. CASE k <= done
        BY <1>3, <2>1, <3>3, <4>2, HandleModes DEF Settled
      <4>3. CASE k = i
        BY <1>3, <2>1, <3>3, <4>3, HandleModes DEF IsRequest
      <4>4. QED
        BY <4>1, <4>2, <4>3
    <3>4. ASSUME mode' # "stopped", NEW k \in 1..Len(sent), k <= i
          PROVE  sent[k].kind # "exit"
      <4>1. CASE k <= done
        BY <2>1, <4>1 DEF Settled
      <4>2. CASE IsResponse(sent[k])
        BY <4>2 DEF IsResponse, Answers
      <4>3. CASE k = i
        BY <1>3, <2>1, <2>3, <3>4, <4>3, HandleModes
        DEF EndsTheSession, Dropped, TakenUp, IsResponse, Answers
      <4>4. QED
        BY <3>1, <3>4, <4>1, <4>2, <4>3
    <3>5. outcome' = "running" <=> mode' # "stopped"
      BY <1>3, <2>1, HandleModes
    <3>6. done' # 0
      BY <1>0, <3>2
    <3>7. QED
      BY <2>1, <3>2, <3>3, <3>4, <3>5, <3>6 DEF Settled, IsRequest
  <2>4. CASE mode' = "stopped" /\ outcome' = "no transport"
    BY <2>4 DEF Settled
  <2>5. QED
    BY <1>3, <2>2, <2>3, <2>4, HandleModes
<1>4. CASE LoopDisconnects \/ HandshakeTimesOut
  BY <1>4 DEF LoopDisconnects, HandshakeTimesOut, Stop, wire, Settled, IsRequest
<1>5. CASE UNCHANGED vars
  BY <1>5 DEF vars, wire, Settled, IsRequest
<1>6. QED
  BY <1>1, <1>2, <1>3, <1>4, <1>5 DEF Next, Server, Over

\* What was taken off the wire before the queue ran empty was taken up, but for
\* the responses.
LEMMA NothingQueued ==
    ASSUME InArrivalOrder, pending = <<>>, done \in Nat, next \in Nat,
           NEW k \in 1..(next - 1), ~IsResponse(sent[k])
    PROVE  k <= done
<1>1. ~\E j \in 1..Len(pending) : pending[j] = k
  OBVIOUS
<1>2. ~(done < k)
  BY <1>1 DEF InArrivalOrder
<1>3. QED
  BY <1>2

\* ... and so it ends as the client said.
LEMMA EndKept ==
    ASSUME Ordered, EndersEnd, Settled, EndsAsTheClientSaid, [Next]_vars
    PROVE  EndsAsTheClientSaid'
<1>0. /\ TypeOK /\ InArrivalOrder
      /\ done \in Nat /\ done <= Len(sent) /\ Len(sent) \in Nat
      /\ next \in Nat /\ next <= Len(sent) + 1 /\ done < next
  <2>1. TypeOK /\ InArrivalOrder
    BY DEF Ordered
  <2>2. /\ done \in Nat /\ done <= Len(sent) /\ Len(sent) \in Nat
        /\ next \in Nat /\ next \in 1..(Len(sent) + 1)
    <3>1. done \in Nat /\ done <= Len(sent) /\ Len(sent) \in Nat
      BY <2>1, Numbers
    <3>2. next \in 1..(Len(sent) + 1)
      BY <2>1 DEF TypeOK
    <3>3. QED
      BY <3>1, <3>2
  <2>3. next <= Len(sent) + 1
    BY <2>2
  <2>4. done < next
    BY <2>1 DEF InArrivalOrder
  <2>5. QED
    BY <2>1, <2>2, <2>3, <2>4
<1>1. CASE Client
  <2>1. /\ UNCHANGED <<next, done, outcome, replied>>
        /\ \A k \in 1..Len(sent) : sent'[k] = sent[k]
    BY <1>0, <1>1, ClientFacts
  <2>2. \A k \in 1..(next - 1) : k \in 1..Len(sent) /\ sent'[k] = sent[k]
    BY <1>0, <2>1
  <2>3. /\ \A k \in 1..(done - 1) : sent'[k] = sent[k]
        /\ outcome \in {"clean", "exit first", "unexpected"} => sent'[done] = sent[done]
    <3>1. done = 0 \/ done \in 1..Len(sent)
      BY <1>0
    <3>2. \A k \in 1..(done - 1) : k \in 1..Len(sent)
      BY <1>0
    <3>3. done = 0 => outcome \notin {"clean", "exit first", "unexpected"}
      <4>1. done = 0 => 1..(done - 1) = {}
        OBVIOUS
      <4>2. QED
        BY <4>1 DEF EndsAsTheClientSaid, Settled
    <3>4. QED
      BY <2>1, <3>1, <3>2, <3>3
  <2>4. QED
    BY <2>1, <2>2, <2>3 DEF EndsAsTheClientSaid, EndsTheSession, IsRequest
<1>2. CASE Jobs
  BY <1>2, JobModes DEF EndsAsTheClientSaid, Settled
<1>3. ASSUME NEW i \in 1..Len(sent), Handle(i)
      PROVE  EndsAsTheClientSaid'
  <2>1. sent' = sent /\ outcome = "running" /\ mode # "stopped"
    BY <1>3, HandleSteps DEF Settled
  <2>2. CASE outcome' \in {"running", "no transport"}
    BY <2>2 DEF EndsAsTheClientSaid
  <2>3. CASE TakenUp(i)
    <3>1. /\ done' = i /\ i \in Nat /\ done < i
          /\ \A k \in 1..Len(sent) : done < k /\ k < i => IsResponse(sent[k])
      BY <1>0, <2>3, TakeFacts DEF TakenUp
    <3>2. \A k \in 1..(i - 1) : k \in 1..Len(sent) /\ (k <= done \/ IsResponse(sent[k]))
      BY <1>0, <3>1
    <3>3. CASE outcome' = "clean"
      <4>1. mode = "handshake" /\ sent[i].kind = "exit"
        BY <1>3, <2>1, <3>3, HandleModes
      <4>2. \E k \in 1..(i - 1) : sent[k].kind = "shutdown"
        <5>1. PICK k \in 1..Len(sent) : k <= done /\ sent[k].kind = "shutdown"
          BY <4>1 DEF EndersEnd
        <5>2. k \in 1..(i - 1)
          BY <1>0, <3>1, <5>1
        <5>3. QED
          BY <5>1, <5>2
      <4>3. \A k \in 1..(i - 1) : IsRequest(sent[k]) => k \in replied'
        BY <1>3, <2>1, <3>2, HandleModes DEF Settled, IsRequest, IsResponse, Answers
      <4>4. QED
        BY <2>1, <3>1, <3>3, <4>1, <4>2, <4>3 DEF EndsAsTheClientSaid, IsRequest
    <3>4. CASE outcome' = "exit first"
      <4>1. mode = "loop" /\ sent[i].kind = "exit"
        BY <1>3, <2>1, <3>4, HandleModes
      <4>2. \A k \in 1..(i - 1) : ~EndsTheSession(sent[k])
        BY <3>2, <4>1 DEF EndersEnd, EndsTheSession, IsResponse, Answers
      <4>3. QED
        BY <2>1, <3>1, <3>4, <4>1, <4>2 DEF EndsAsTheClientSaid, EndsTheSession
    <3>5. CASE outcome' = "unexpected"
      <4>1. mode = "handshake" /\ ~EndsTheSession(sent[i])
        BY <1>3, <2>1, <3>5, HandleModes
      <4>2. \E k \in 1..(i - 1) : sent[k].kind = "shutdown"
        <5>1. PICK k \in 1..Len(sent) : k <= done /\ sent[k].kind = "shutdown"
          BY <4>1 DEF EndersEnd
        <5>2. k \in 1..(i - 1)
          BY <1>0, <3>1, <5>1
        <5>3. QED
          BY <5>1, <5>2
      <4>3. QED
        BY <2>1, <3>1, <3>5, <4>1, <4>2 DEF EndsAsTheClientSaid, EndsTheSession
    <3>6. QED
      BY <1>3, <2>1, <2>2, <3>3, <3>4, <3>5, HandleModes
  <2>4. QED
    BY <1>3, <2>1, <2>2, <2>3, HandleModes
<1>4. CASE LoopDisconnects \/ HandshakeTimesOut
  <2>1. /\ pending = <<>> /\ UNCHANGED <<sent, next, replied>>
        /\ \/ mode = "loop" /\ outcome' = "hung up"
           \/ mode = "handshake" /\ outcome' = "no exit"
    BY <1>4 DEF LoopDisconnects, HandshakeTimesOut, Stop, wire
  <2>2. \A k \in 1..(next - 1) :
           k \in 1..Len(sent) /\ (k <= done \/ IsResponse(sent[k]))
    <3>1. ASSUME NEW k \in 1..(next - 1)
          PROVE  k \in 1..Len(sent) /\ (k <= done \/ IsResponse(sent[k]))
      <4>1. k \in 1..Len(sent)
        BY <1>0
      <4>2. ~IsResponse(sent[k]) => k <= done
        BY <1>0, <2>1, NothingQueued
      <4>3. QED
        BY <4>1, <4>2
    <3>2. QED
      BY <3>1
  <2>3. \A k \in 1..(next - 1) : sent[k].kind # "exit"
    BY <2>1, <2>2 DEF Settled, IsResponse, Answers
  <2>4. mode = "loop" => \A k \in 1..(next - 1) :
           ~EndsTheSession(sent[k]) /\ (IsRequest(sent[k]) => k \in replied)
    BY <2>2 DEF EndersEnd, Settled, EndsTheSession, IsRequest, IsResponse, Answers
  <2>5. QED
    BY <2>1, <2>3, <2>4 DEF EndsAsTheClientSaid, EndsTheSession, IsRequest
<1>5. CASE UNCHANGED vars
  BY <1>5 DEF vars, wire, EndsAsTheClientSaid, EndsTheSession, IsRequest
<1>6. QED
  BY <1>1, <1>2, <1>3, <1>4, <1>5 DEF Next, Server, Over

------------------------------------------------------------------------------
\* Before the first message the queues are empty and no token is in use.
LEMMA InitIInv == Init => IInv /\ Settled /\ EndsAsTheClientSaid
<1> SUFFICES ASSUME Init PROVE IInv /\ Settled /\ EndsAsTheClientSaid
  OBVIOUS
<1>1. MaxSent \in Nat
  BY SessionAssumption
<1>2. Len(sent) = 0 /\ Len(pending) = 0 /\ sent \in Seq(Message)
  BY DEF Init
<1>3. TypeOK
  <2>1. /\ next \in 1..(Len(sent) + 1) /\ done \in 0..Len(sent)
        /\ pending \in Seq(1..Len(sent))
    BY <1>2 DEF Init
  <2>2. QED
    BY <1>2, <2>1 DEF Init, TypeOK
<1>4. WithinBudget
  BY <1>1, <1>2 DEF Init, WithinBudget, Budget
<1>5. InArrivalOrder
  BY <1>2 DEF Init, InArrivalOrder
<1>6. TokensSound
  BY <1>2 DEF Init, TokensSound, VerdictsAreAnswers, ReportsUnderAcceptedTokens,
              OpenWhileWorking
<1>7. EndersEnd /\ Settled /\ EndsAsTheClientSaid
  BY <1>2 DEF Init, EndersEnd, Settled, EndsAsTheClientSaid
<1>8. QED
  BY <1>3, <1>4, <1>5, <1>6, <1>7 DEF IInv, Ordered, TokensSound

\* Every step keeps the inductive invariant: the three parts' lemmas together.
LEMMA NextIInv == IInv /\ [Next]_vars => IInv'
BY OrderedKept, TokensKept, EndersKept DEF IInv, TokensSound

\* Hence the inductive invariant holds throughout.
LEMMA Invariance == Spec => []IInv
BY InitIInv, NextIInv, PTL DEF Spec

\* Every variable holds a value of its type throughout: in particular the
\* session never needs more tokens than it has reloads and two more.
THEOREM TypeCorrect == Spec => []TypeOK
<1>1. IInv => TypeOK
  BY DEF IInv, Ordered
<1>2. QED
  BY <1>1, Invariance, PTL

\* The create windows lose, reorder and duplicate nothing, however many there
\* are and wherever the messages fall.
THEOREM ArrivalOrder == Spec => []InArrivalOrder
<1>1. IInv => InArrivalOrder
  BY DEF IInv, Ordered
<1>2. QED
  BY <1>1, Invariance, PTL

\* No progress is reported under a refused token, nor under an unanswered one
\* more than once in a session.
THEOREM AcceptedTokens == Spec => []ReportsUnderAcceptedTokens
<1>1. IInv => ReportsUnderAcceptedTokens
  BY DEF IInv
<1>2. QED
  BY <1>1, Invariance, PTL

\* Whenever the server listens again, the client's progress is closed.
THEOREM TokensClosed == Spec => []NoTokenLeftOpen
<1>1. IInv => NoTokenLeftOpen
  BY DEF IInv, OpenWhileWorking, NoTokenLeftOpen
<1>2. QED
  BY <1>1, Invariance, PTL

\* No create is sent once a shutdown or an exit has been taken off the wire.
THEOREM LeavingClientUndisturbed == Spec => NoCreateOnceLeaving
<1>1. ASSUME IInv, [Next]_vars
      PROVE  [seq' # seq => \A k \in 1..(next - 1) : ~EndsTheSession(sent[k])]_vars
  <2>1. SUFFICES ASSUME seq' # seq, NEW k \in 1..(next - 1), EndsTheSession(sent[k])
                 PROVE  FALSE
    OBVIOUS
  <2>2. mode = "announce" /\ ~SessionIsEnding
    <3>1. Jobs
      <4>1. CASE Client
        BY <1>1, <2>1, <4>1, ClientFacts DEF IInv, Ordered
      <4>2. CASE \E i \in 1..Len(sent) : Handle(i)
        BY <2>1, <4>2, HandleSteps
      <4>3. CASE LoopDisconnects \/ HandshakeTimesOut \/ UNCHANGED vars
        BY <2>1, <4>3 DEF LoopDisconnects, HandshakeTimesOut, vars, work
      <4>4. QED
        BY <1>1, <4>1, <4>2, <4>3 DEF Next, Server, Over
    <3>2. QED
      BY <2>1, <3>1 DEF Jobs, AnnounceSilently, OpenWindow, CreateFails,
         WindowAnswered, WindowDiscards, WindowQueues, WindowTimesOut, JobEnds,
         ReloadPublishFails, RegisterWatchers, StartWork, work
  <2>3. /\ k \in 1..Len(sent) /\ k \in Nat /\ done \in Nat
    <3>1. Len(sent) \in Nat /\ next \in 1..(Len(sent) + 1) /\ done \in Nat
      BY <1>1, Numbers DEF IInv, Ordered, TypeOK
    <3>2. QED
      BY <2>1, <3>1
  <2>4. ~IsResponse(sent[k])
    BY <2>1 DEF EndsTheSession, IsResponse, Answers
  <2>5. done < k
    BY <1>1, <2>1, <2>2, <2>3 DEF IInv, EndersEnd
  <2>6. \E j \in 1..Len(pending) : pending[j] = k
    BY <1>1, <2>1, <2>4, <2>5 DEF IInv, Ordered, InArrivalOrder
  <2>7. QED
    BY <2>1, <2>2, <2>6 DEF SessionIsEnding
<1>2. QED
  BY <1>1, Invariance, PTL DEF Spec, NoCreateOnceLeaving

\* However a session ends, it ends as the client said it should, for any number
\* of windows and any interleaving of the client's words with them.
THEOREM SessionEndsAsSaid == Spec => []EndsAsTheClientSaid
<1> DEFINE Inv == IInv /\ Settled /\ EndsAsTheClientSaid
<1>1. Init => Inv
  BY InitIInv
<1>2. Inv /\ [Next]_vars => Inv'
  BY NextIInv, SettledKept, EndKept DEF IInv
<1>3. QED
  BY <1>1, <1>2, PTL DEF Spec
=============================================================================
