--------------------------- MODULE GodViewProofs ---------------------------
(***************************************************************************)
(* Theorems about the God View page, for any number of submissions.        *)
(***************************************************************************)
EXTENDS GodView, SequenceTheorems, WellFoundedInduction, TLAPS

Kinds == {"start", "complete", "done", "error"}
Message == [kind : Kinds, id : Nat]
Records == {"absent", "running", "finished", "failed", "mute", "stuck"}
Recorded == {"failed", "mute"}
Phases == {"null", "executing_sandbox"} \cup Terminal
Fetch == [run : Runs, nth : Nat, read : Records \cup {"no"}]

Types ==
    /\ events \in [Runs -> Seq(Message)] /\ record \in [Runs -> Records]
    /\ start \in [Runs -> {"no", "posted", "created", "replied", "failed"}]
    /\ socket \in [Runs -> {"none", "connecting", "open", "closed"}]
    /\ from \in [Runs -> Nat] /\ sent \in [Runs -> Nat]
    /\ fetches \subseteq Fetch /\ asked \in [Runs -> Nat]
    /\ runId \in Runs \cup {0} /\ result \in Runs \cup {0}
    /\ busy \in BOOLEAN /\ error \in BOOLEAN
    /\ phase \in Phases /\ feed \in Seq(Message)
    /\ committed \in [phase : Phases, runId : Runs \cup {0}, length : Nat]

\* Only the socket of the committed run is in use, and the feed holds that run's
\* events from the subscription to the last one sent.
FeedInv ==
    /\ \A r \in Runs : r # committed.runId => socket[r] \in {"none", "closed"}
    /\ \A r \in Runs : socket[r] = "connecting" => from[r] = 0 /\ sent[r] = 0
    /\ \A r \in Runs : r = committed.runId =>
         /\ from[r] <= sent[r] /\ sent[r] <= Len(events[r])
         /\ Len(feed) = sent[r] - from[r]
         /\ \A i \in 1 .. Len(feed) : feed[i] = events[r][from[r] + i]

\* The phase is the one of the committed run. A socket that is in use has sent no
\* terminal event.
PhaseInv ==
    /\ \A r \in Runs : socket[r] = "connecting" => phase = "null"
    /\ \A r \in Runs : socket[r] = "open" => phase \notin Terminal /\ committed.phase \notin Terminal
    /\ committed.runId # 0 => start[committed.runId] = "replied"
    /\ runId # 0 => start[runId] = "replied"

\* Who hears of a failure finds it recorded, and what was read stays true.
RecordInv ==
    /\ \A r \in Runs : start[r] \in {"no", "posted"} => record[r] = "absent"
    /\ \A r \in Runs : \A i \in DOMAIN events[r] :
         events[r][i].kind = "error" => record[r] \in Recorded
    /\ phase = "error" => committed.runId \in Runs /\ record[committed.runId] \in Recorded
    /\ result # 0 => record[result] = "finished"
    /\ \A f \in fetches : f.read = "finished" => record[f.run] = "finished"

\* Until the error of a failed run is shown, a fetch is on its way that will show it,
\* if it has a text.
ShownInv ==
    phase = "error" /\ committed.phase = "error" /\ committed.runId = runId =>
        \/ error \/ Starting \/ record[runId] = "mute"
        \/ \E f \in fetches : f.run = runId /\ f.read \in {"no", "failed"}

SomeEnded == \E r \in Runs : Ended(r)

\* The page fetches when a run has ended, and is locked until then.
LockInv ==
    /\ phase \in Terminal \/ fetches # {} => SomeEnded
    /\ (runId # 0 \/ Starting) /\ ~busy => error \/ SomeEnded

IInv == Types /\ FeedInv /\ PhaseInv /\ RecordInv /\ ShownInv /\ LockInv

LEMMA InitIInv == Init => IInv
<1> SUFFICES ASSUME Init PROVE IInv  OBVIOUS
<1>1. Types
  <2>1. <<>> \in Seq(Message)  OBVIOUS
  <2>2. events \in [Runs -> Seq(Message)] /\ feed \in Seq(Message)  BY <2>1 DEF Init
  <2>3. committed \in [phase : Phases, runId : Runs \cup {0}, length : Nat]
    BY DEF Init, Phases
  <2>4. fetches \subseteq Fetch /\ phase \in Phases  BY DEF Init, Phases
  <2> QED BY <2>2, <2>3, <2>4 DEF Init, Types, Records
<1>2. FeedInv /\ PhaseInv /\ RecordInv /\ ShownInv
  BY DEF Init, FeedInv, PhaseInv, RecordInv, ShownInv
<1>3. LockInv  BY DEF Init, LockInv, Starting, Terminal
<1> QED BY <1>1, <1>2, <1>3 DEF IInv

-----------------------------------------------------------------------------
(* The backend. *)

\* An event is added behind those of its run.
LEMMA PublishFacts ==
  ASSUME Types, NEW r \in Runs, NEW kind \in Kinds, Publish(r, kind)
  PROVE  /\ events' \in [Runs -> Seq(Message)]
         /\ \A q \in Runs : /\ Len(events[q]) <= Len(events'[q])
                            /\ \A i \in 1 .. Len(events[q]) : events'[q][i] = events[q][i]
         /\ \A q \in Runs : \A i \in DOMAIN events'[q] :
                i \in DOMAIN events[q] \/ (q = r /\ events'[q][i].kind = kind)
<1>1. Event(kind, r) \in Message /\ Event(kind, r).kind = kind
  BY RunsAssumption DEF Event, IdOf, Message, Runs
<1>2. events \in [Runs -> Seq(Message)] /\ events' = [events EXCEPT ![r] = Append(@, Event(kind, r))]
  BY DEF Types, Publish
<1>3. events[r] \in Seq(Message)  BY <1>2
<1> DEFINE e == Event(kind, r)
<1> HIDE DEF e
<1>4. /\ Append(events[r], e) \in Seq(Message)
      /\ Len(Append(events[r], e)) = Len(events[r]) + 1
      /\ \A i \in 1 .. Len(events[r]) : Append(events[r], e)[i] = events[r][i]
      /\ Append(events[r], e)[Len(events[r]) + 1] = e
  BY <1>1, <1>3, AppendProperties DEF e
<1>5. events'[r] = Append(events[r], e) /\ \A q \in Runs \ {r} : events'[q] = events[q]
  BY <1>2 DEF e
<1>6. events' \in [Runs -> Seq(Message)]  BY <1>2, <1>4 DEF e
<1>7. ASSUME NEW q \in Runs
      PROVE  /\ Len(events[q]) <= Len(events'[q])
             /\ \A i \in 1 .. Len(events[q]) : events'[q][i] = events[q][i]
             /\ \A i \in DOMAIN events'[q] :
                    i \in DOMAIN events[q] \/ (q = r /\ events'[q][i].kind = kind)
  <2>1. CASE q # r
    <3>1. events'[q] = events[q] /\ events[q] \in Seq(Message)  BY <1>2, <1>5, <2>1
    <3> QED BY <3>1
  <2>2. CASE q = r
    <3>1. e.kind = kind  BY <1>1 DEF e
    <3> QED BY <1>3, <1>4, <1>5, <2>2, <3>1
  <2> QED BY <2>1, <2>2
<1> QED BY <1>6, <1>7

\* What the page can rely on when the backend takes a step.
BackendKeeps ==
    /\ UNCHANGED <<net, page, committed>>
    /\ events' \in [Runs -> Seq(Message)] /\ record' \in [Runs -> Records]
    /\ start' \in [Runs -> {"no", "posted", "created", "replied", "failed"}]
    /\ \A q \in Runs : /\ Len(events[q]) <= Len(events'[q])
                       /\ \A i \in 1 .. Len(events[q]) : events'[q][i] = events[q][i]
    /\ \A q \in Runs : \A i \in DOMAIN events'[q] :
           i \in DOMAIN events[q] \/ (events'[q][i].kind = "error" => record'[q] \in Recorded)
    /\ \A q \in Runs : record[q] \in Recorded \cup {"finished"} => record'[q] = record[q]
    /\ \A q \in Runs : start[q] = "replied" => start'[q] = "replied"
    /\ \A q \in Runs : start'[q] \in {"no", "posted"} => record'[q] = "absent"
    /\ Starting' <=> Starting

LEMMA BackendStep == ASSUME Types, RecordInv, NEW r \in Runs, RunStep(r) PROVE BackendKeeps
<1>1. \A q \in Runs : events[q] \in Seq(Message) /\ Len(events[q]) \in Nat  BY DEF Types
<1>2. \A q \in Runs : start[q] \in {"no", "posted"} => record[q] = "absent"  BY DEF RecordInv
<1>3. CASE Create(r)
  <2>1. Starting' <=> Starting  BY <1>3 DEF Create, Starting, Types
  <2>2. /\ record' \in [Runs -> Records]
        /\ start' \in [Runs -> {"no", "posted", "created", "replied", "failed"}]
        /\ UNCHANGED <<events, net, page, committed>>
    BY <1>3 DEF Create, Types, Records
  <2>3. start[r] = "posted" /\ \A q \in Runs \ {r} : start'[q] = start[q] /\ record'[q] = record[q]
    BY <1>3 DEF Create, Types
  <2>4. /\ \A q \in Runs : record[q] \in Recorded \cup {"finished"} => record'[q] = record[q]
        /\ \A q \in Runs : start[q] = "replied" => start'[q] = "replied"
        /\ \A q \in Runs : start'[q] \in {"no", "posted"} => record'[q] = "absent"
    <3>1. record[r] = "absent"  BY <1>3, <1>2 DEF Create
    <3>2. start'[r] = "created"  BY <1>3 DEF Create, Types
    <3> QED BY <1>2, <2>3, <3>1, <3>2 DEF Recorded
  <2> QED BY <1>1, <2>1, <2>2, <2>4 DEF BackendKeeps, Types
<1>4. CASE RunSandbox(r) \/ Announce(r) \/ PublishError(r)
  <2>1. UNCHANGED <<record, start, net, page, committed>> /\ (Starting' <=> Starting)
    BY <1>4 DEF RunSandbox, Announce, PublishError, Starting
  <2>2. PICK kind \in Kinds : Publish(r, kind) /\ (kind = "error" => record[r] \in Recorded)
    BY <1>4 DEF RunSandbox, Announce, PublishError, Kinds, Recorded
  <2>3. /\ events' \in [Runs -> Seq(Message)]
        /\ \A q \in Runs : /\ Len(events[q]) <= Len(events'[q])
                           /\ \A i \in 1 .. Len(events[q]) : events'[q][i] = events[q][i]
        /\ \A q \in Runs : \A i \in DOMAIN events'[q] :
               i \in DOMAIN events[q] \/ (q = r /\ events'[q][i].kind = kind)
    BY <2>2, PublishFacts
  <2>4. \A q \in Runs : \A i \in DOMAIN events'[q] :
            i \in DOMAIN events[q] \/ (events'[q][i].kind = "error" => record'[q] \in Recorded)
    BY <2>1, <2>2, <2>3
  <2> QED BY <1>2, <2>1, <2>3, <2>4 DEF BackendKeeps, Types
<1>5. CASE Store(r) \/ RecordFailure(r) \/ FailureLost(r)
  <2>1. UNCHANGED <<events, start, net, page, committed>> /\ (Starting' <=> Starting)
    BY <1>5 DEF Store, RecordFailure, FailureLost, Starting
  <2>2. record' \in [Runs -> Records] /\ record[r] = "running"
        /\ \A q \in Runs \ {r} : record'[q] = record[q]
    BY <1>5 DEF Store, RecordFailure, FailureLost, Types, Records
  <2>3. \A q \in Runs : start[q] \in {"no", "posted"} => q # r  BY <1>2, <2>2
  <2> QED BY <1>1, <1>2, <2>1, <2>2, <2>3 DEF BackendKeeps, Types, Recorded
<1> QED BY <1>3, <1>4, <1>5 DEF RunStep

\* A run that has ended stays so.
LEMMA EndedStays ==
  ASSUME Types, NEW r \in Runs, Ended(r),
         Len(events[r]) <= Len(events'[r]), events'[r] \in Seq(Message),
         \A i \in 1 .. Len(events[r]) : events'[r][i] = events[r][i]
  PROVE  Ended(r)'
<1>1. PICK i \in DOMAIN events[r] : events[r][i].kind \in Terminal  BY DEF Ended
<1>2. events[r] \in Seq(Message)  BY DEF Types
<1>3. i \in 1 .. Len(events[r]) /\ i \in DOMAIN events'[r]  BY <1>2
<1> QED BY <1>1, <1>3 DEF Ended

LEMMA BackendInv == ASSUME IInv, BackendKeeps PROVE IInv'
<1>1. UNCHANGED <<socket, from, sent, fetches, asked, runId, busy, error, result, phase, feed, committed>>
  BY DEF BackendKeeps, net, page
<1>2. /\ events' \in [Runs -> Seq(Message)]
      /\ \A q \in Runs : /\ Len(events[q]) <= Len(events'[q])
                         /\ \A i \in 1 .. Len(events[q]) : events'[q][i] = events[q][i]
  BY DEF BackendKeeps
<1>3. /\ record' \in [Runs -> Records]
      /\ \A q \in Runs : record[q] \in Recorded \cup {"finished"} => record'[q] = record[q]
      /\ \A q \in Runs : \A i \in DOMAIN events'[q] :
             i \in DOMAIN events[q] \/ (events'[q][i].kind = "error" => record'[q] \in Recorded)
  BY DEF BackendKeeps
<1>4. \A q \in Runs : start'[q] \in {"no", "posted"} => record'[q] = "absent"  BY DEF BackendKeeps
<1>5. \A q \in Runs : start[q] = "replied" => start'[q] = "replied"  BY DEF BackendKeeps
<1>6. events \in [Runs -> Seq(Message)] /\ from \in [Runs -> Nat] /\ sent \in [Runs -> Nat]
  BY DEF IInv, Types
<1>7. Types'  BY <1>1, <1>2, <1>3 DEF IInv, Types, BackendKeeps
<1>8. FeedInv'
  <2>1. ASSUME NEW r \in Runs, r = committed.runId
        PROVE  /\ from[r] <= sent[r] /\ sent[r] <= Len(events'[r])
               /\ Len(feed) = sent[r] - from[r]
               /\ \A i \in 1 .. Len(feed) : feed[i] = events'[r][from[r] + i]
    <3> DEFINE f == from[r]
               n == sent[r]
               old == events[r]
               new == events'[r]
    <3>1. f \in Nat /\ n \in Nat /\ Len(old) \in Nat /\ Len(new) \in Nat
      BY <1>2, <1>6
    <3>2. f <= n /\ n <= Len(old) /\ Len(feed) = n - f
          /\ \A i \in 1 .. Len(feed) : feed[i] = old[f + i]
      BY <2>1 DEF IInv, FeedInv
    <3>3. Len(old) <= Len(new) /\ \A i \in 1 .. Len(old) : new[i] = old[i]  BY <1>2
    <3> HIDE DEF f, n, old, new
    <3>4. \A i \in 1 .. Len(feed) : f + i \in 1 .. Len(old)  BY <3>1, <3>2
    <3>5. f <= n /\ n <= Len(new) /\ Len(feed) = n - f
          /\ \A i \in 1 .. Len(feed) : feed[i] = new[f + i]
      BY <3>1, <3>2, <3>3, <3>4
    <3> QED BY <3>5 DEF f, n, new
  <2> QED BY <1>1, <2>1 DEF IInv, FeedInv
<1>9. PhaseInv'
  <2>1. committed.runId \in Runs \cup {0} /\ runId \in Runs \cup {0}  BY DEF IInv, Types
  <2> QED BY <1>1, <1>5, <2>1 DEF IInv, PhaseInv
<1>10. RecordInv'
  <2>1. ASSUME NEW r \in Runs, NEW i \in DOMAIN events'[r], events'[r][i].kind = "error"
        PROVE  record'[r] \in Recorded
    <3>1. CASE i \in DOMAIN events[r]
      <4>1. i \in 1 .. Len(events[r])  BY <1>6, <3>1
      <4>2. events'[r][i] = events[r][i]  BY <1>2, <4>1
      <4>3. record[r] \in Recorded  BY <2>1, <3>1, <4>2 DEF IInv, RecordInv
      <4> QED BY <1>3, <4>3
    <3> QED BY <1>3, <2>1, <3>1
  <2>2. /\ \A f \in fetches : f.run \in Runs
        /\ committed.runId \in Runs \cup {0} /\ result \in Runs \cup {0}
    BY DEF IInv, Types, Fetch
  <2> QED BY <1>1, <1>3, <1>4, <2>1, <2>2 DEF IInv, RecordInv
<1>11. ShownInv'
  <2>1. record[runId] = "mute" /\ runId \in Runs => record'[runId] = "mute"  BY <1>3 DEF Recorded
  <2>2. phase = "error" => committed.runId \in Runs  BY DEF IInv, RecordInv
  <2> QED BY <1>1, <2>1, <2>2 DEF IInv, ShownInv, BackendKeeps
<1>12. LockInv'
  <2>1. SomeEnded => SomeEnded'  BY <1>2, EndedStays DEF IInv, SomeEnded
  <2> QED BY <1>1, <2>1 DEF IInv, LockInv, BackendKeeps
<1> QED BY <1>7, <1>8, <1>9, <1>10, <1>11, <1>12 DEF IInv

-----------------------------------------------------------------------------
(* Submitting. *)

LEMMA SubmitStep == ASSUME IInv, NEW r \in Runs, Submit(r) PROVE IInv'
<1> USE DEF IInv
<1>1. UNCHANGED <<events, record, socket, from, sent, fetches, asked, runId, phase, feed, committed>>
  BY DEF Submit, net
<1>2. /\ start[r] = "no" /\ start' \in [Runs -> {"no", "posted", "created", "replied", "failed"}]
      /\ start'[r] = "posted" /\ \A q \in Runs \ {r} : start'[q] = start[q]
      /\ error' = FALSE /\ result' = 0 /\ busy' = TRUE
  BY DEF Submit, Types
<1>3. Types'  BY <1>1, <1>2 DEF Types
<1>4. FeedInv'  BY <1>1 DEF FeedInv
<1>5. PhaseInv'
  <2>1. committed.runId \in Runs \cup {0} /\ runId \in Runs \cup {0}  BY DEF Types
  <2> QED BY <1>1, <1>2, <2>1 DEF PhaseInv
<1>6. RecordInv'  BY <1>1, <1>2 DEF RecordInv
<1>7. Starting'  BY <1>2 DEF Starting
<1>8. ShownInv'  BY <1>7 DEF ShownInv
<1>9. SomeEnded' = SomeEnded  BY <1>1 DEF SomeEnded, Ended
<1>10. LockInv'  BY <1>1, <1>2, <1>9 DEF LockInv
<1> QED BY <1>3, <1>4, <1>5, <1>6, <1>8, <1>10

LEMMA StartReplyStep == ASSUME IInv, NEW r \in Runs, StartReply(r) PROVE IInv'
<1> USE DEF IInv
<1>1. /\ UNCHANGED <<events, record, socket, from, sent, fetches, asked, busy, error, result, phase,
                     feed, committed>>
      /\ runId' = r
  BY DEF StartReply, net
<1>2. /\ start[r] = "created" /\ start' \in [Runs -> {"no", "posted", "created", "replied", "failed"}]
      /\ start'[r] = "replied" /\ \A q \in Runs \ {r} : start'[q] = start[q]
  BY DEF StartReply, Types
<1>3. Types'  BY <1>1, <1>2 DEF Types
<1>4. FeedInv'  BY <1>1 DEF FeedInv
<1>5. committed.runId \in Runs \cup {0} /\ committed.runId # r /\ 0 \notin Runs
  BY <1>2 DEF Types, PhaseInv, Runs
<1>6. PhaseInv'  BY <1>1, <1>2, <1>5 DEF PhaseInv
<1>7. RecordInv'  BY <1>1, <1>2 DEF RecordInv
<1>8. ShownInv'  BY <1>1, <1>5 DEF ShownInv
<1>9. SomeEnded' = SomeEnded /\ Starting  BY <1>1, <1>2 DEF SomeEnded, Ended, Starting
<1>10. LockInv'  BY <1>1, <1>9 DEF LockInv
<1> QED BY <1>3, <1>4, <1>6, <1>7, <1>8, <1>10

LEMMA StartFailsStep == ASSUME IInv, NEW r \in Runs, StartFails(r) PROVE IInv'
<1> USE DEF IInv
<1>1. /\ UNCHANGED <<events, record, socket, from, sent, fetches, asked, runId, result, phase,
                     feed, committed>>
      /\ error' = TRUE /\ busy' = FALSE
  BY DEF StartFails, net
<1>2. /\ start[r] \in {"posted", "created"}
      /\ start' \in [Runs -> {"no", "posted", "created", "replied", "failed"}]
      /\ start'[r] = "failed" /\ \A q \in Runs \ {r} : start'[q] = start[q]
  BY DEF StartFails, Types
<1>3. Types'  BY <1>1, <1>2 DEF Types
<1>4. FeedInv'  BY <1>1 DEF FeedInv
<1>5. PhaseInv'
  <2>1. committed.runId \in Runs \cup {0} /\ runId \in Runs \cup {0}  BY DEF Types
  <2> QED BY <1>1, <1>2, <2>1 DEF PhaseInv
<1>6. RecordInv'  BY <1>1, <1>2 DEF RecordInv
<1>7. ShownInv'  BY <1>1 DEF ShownInv
<1>8. SomeEnded' = SomeEnded  BY <1>1 DEF SomeEnded, Ended
<1>9. LockInv'  BY <1>1, <1>8 DEF LockInv
<1> QED BY <1>3, <1>4, <1>5, <1>6, <1>7, <1>9

-----------------------------------------------------------------------------
(* A commit. *)

\* The effect on [phase, runId] asks for the run whose id is committed now.
Asks == FetchesNow /\ (phase # committed.phase \/ runId # committed.runId)

LEMMA AskFacts ==
  ASSUME Types, Commit
  PROVE  /\ UNCHANGED <<events, record, start, runId, busy, error, result>>
         /\ committed' = [phase |-> phase, runId |-> runId, length |-> Len(feed)]
         /\ fetches' \subseteq Fetch /\ asked' \in [Runs -> Nat] /\ fetches \subseteq fetches'
         /\ \A f \in fetches' \ fetches : f.read = "no" /\ phase \in Terminal
         /\ Asks => \E f \in fetches' : f.run = runId /\ f.read = "no"
<1>1. /\ UNCHANGED <<events, record, start, runId, busy, error, result>>
      /\ committed' = [phase |-> phase, runId |-> runId, length |-> Len(feed)]
  BY DEF Commit, backend
<1>2. CASE Asks
  <2>1. runId \in Runs /\ phase \in Terminal  BY <1>2 DEF Asks, FetchesNow, Types
  <2> DEFINE f == [run |-> runId, nth |-> asked'[runId], read |-> "no"]
  <2>2. asked' = [asked EXCEPT ![runId] = @ + 1] /\ fetches' = fetches \cup {f}
    BY <1>2 DEF Commit, Asks
  <2>3. asked' \in [Runs -> Nat]  BY <2>1, <2>2 DEF Types
  <2>4. f \in Fetch /\ f.run = runId /\ f.read = "no"  BY <2>1, <2>3 DEF Fetch
  <2> HIDE DEF f
  <2> QED BY <1>1, <2>1, <2>2, <2>3, <2>4 DEF Types
<1>3. CASE ~Asks
  <2>1. UNCHANGED <<asked, fetches>>  BY <1>3 DEF Commit, Asks
  <2> QED BY <1>1, <1>3, <2>1 DEF Types
<1> QED BY <1>2, <1>3

LEMMA CommitStep == ASSUME IInv, Commit PROVE IInv'
<1> USE DEF IInv
<1>1. /\ UNCHANGED <<events, record, start, runId, busy, error, result>>
      /\ committed' = [phase |-> phase, runId |-> runId, length |-> Len(feed)]
      /\ fetches' \subseteq Fetch /\ asked' \in [Runs -> Nat] /\ fetches \subseteq fetches'
      /\ \A f \in fetches' \ fetches : f.read = "no" /\ phase \in Terminal
      /\ Asks => \E f \in fetches' : f.run = runId /\ f.read = "no"
  BY AskFacts
<1>2. /\ committed'.phase = phase /\ committed'.runId = runId
      /\ committed' \in [phase : Phases, runId : Runs \cup {0}, length : Nat]
  BY <1>1 DEF Types
<1>3. SomeEnded' = SomeEnded /\ Starting' = Starting
  BY <1>1 DEF SomeEnded, Ended, Starting
<1>4. CASE runId # committed.runId
  <2>1. Subscribe  BY <1>4 DEF Commit
  <2>2. /\ socket' = [r \in Runs |->
             IF r = runId THEN "connecting" ELSE IF socket[r] = "none" THEN "none" ELSE "closed"]
        /\ from' = [r \in Runs |-> 0] /\ sent' = [r \in Runs |-> 0]
        /\ feed' = <<>> /\ phase' = "null"
    BY <2>1 DEF Subscribe
  <2>3. Types'
    <3>1. feed' \in Seq(Message) /\ phase' \in Phases  BY <2>2 DEF Phases
    <3>2. socket' \in [Runs -> {"none", "connecting", "open", "closed"}]
          /\ from' \in [Runs -> Nat] /\ sent' \in [Runs -> Nat]
      BY <2>2
    <3> QED BY <1>1, <1>2, <3>1, <3>2 DEF Types
  <2>4. FeedInv'
    <3>1. \A r \in Runs : Len(events[r]) \in Nat  BY DEF Types
    <3>2. Len(feed') = 0  BY <2>2
    <3> QED BY <1>1, <1>2, <2>2, <3>1, <3>2 DEF FeedInv
  <2>5. PhaseInv'
    <3>1. \A r \in Runs : socket'[r] # "open"  BY <2>2
    <3> QED BY <1>1, <1>2, <2>2, <3>1 DEF PhaseInv
  <2>6. RecordInv'  BY <1>1, <2>2 DEF RecordInv
  <2>7. ShownInv'  BY <2>2 DEF ShownInv
  <2>8. LockInv'  BY <1>1, <1>3, <2>2 DEF LockInv, Terminal
  <2> QED BY <2>3, <2>4, <2>5, <2>6, <2>7, <2>8
<1>5. CASE runId = committed.runId
  <2>1. UNCHANGED <<socket, from, sent, feed, phase>>  BY <1>5 DEF Commit
  <2>2. Types'  BY <1>1, <1>2, <2>1 DEF Types
  <2>3. FeedInv'  BY <1>1, <1>2, <1>5, <2>1 DEF FeedInv
  <2>4. PhaseInv'  BY <1>1, <1>2, <1>5, <2>1 DEF PhaseInv
  <2>5. RecordInv'  BY <1>1, <1>2, <1>5, <2>1 DEF RecordInv
  <2>6. ShownInv'
    <3> SUFFICES ASSUME phase = "error"
                 PROVE  \/ error \/ Starting \/ record[runId] = "mute"
                        \/ \E f \in fetches' : f.run = runId /\ f.read \in {"no", "failed"}
      BY <1>1, <1>3, <2>1 DEF ShownInv
    <3>1. CASE committed.phase = "error"  BY <1>1, <1>5, <3>1 DEF ShownInv
    <3>2. CASE committed.phase # "error"
      <4>1. runId # 0  BY <1>5 DEF RecordInv, Runs
      <4>2. Asks  BY <3>2, <4>1 DEF Asks, FetchesNow, Terminal
      <4> QED BY <1>1, <4>2
    <3> QED BY <3>1, <3>2
  <2>7. LockInv'  BY <1>1, <1>3, <2>1 DEF LockInv
  <2> QED BY <2>2, <2>3, <2>4, <2>5, <2>6, <2>7
<1> QED BY <1>4, <1>5

-----------------------------------------------------------------------------
(* The socket. *)

LEMMA ConnectStep == ASSUME IInv, NEW r \in Runs, Connect(r) PROVE IInv'
<1> USE DEF IInv
<1>1. UNCHANGED <<events, record, start, fetches, asked, runId, busy, error, result, phase, feed, committed>>
  BY DEF Connect, backend, page
<1>2. /\ socket[r] = "connecting" /\ committed.phase = phase
      /\ r = committed.runId /\ phase = "null"
  BY DEF Connect, Uncommitted, FeedInv, PhaseInv
<1>3. Len(events[r]) \in Nat  BY DEF Types
<1>4. /\ socket' = [socket EXCEPT ![r] = "open"]
      /\ from' = [from EXCEPT ![r] = Len(events[r])]
      /\ sent' = [sent EXCEPT ![r] = Len(events[r])]
  BY DEF Connect
<1>5. Types'  BY <1>1, <1>3, <1>4 DEF Types
<1>6. /\ socket'[r] = "open" /\ from'[r] = Len(events[r]) /\ sent'[r] = Len(events[r])
      /\ \A q \in Runs \ {r} : socket'[q] = socket[q] /\ from'[q] = from[q] /\ sent'[q] = sent[q]
  BY <1>4 DEF Types
<1>7. FeedInv'
  <2>1. from[r] = 0 /\ sent[r] = 0 /\ Len(feed) = 0  BY <1>2 DEF FeedInv
  <2> QED BY <1>1, <1>2, <1>3, <1>6, <2>1 DEF FeedInv
<1>8. PhaseInv'  BY <1>1, <1>2, <1>6 DEF PhaseInv, Terminal
<1>9. RecordInv' /\ ShownInv'  BY <1>1 DEF RecordInv, ShownInv, Starting
<1>10. LockInv'  BY <1>1 DEF LockInv, SomeEnded, Ended, Starting
<1> QED BY <1>5, <1>7, <1>8, <1>9, <1>10

LEMMA DeliverStep == ASSUME IInv, NEW r \in Runs, Deliver(r) PROVE IInv'
<1> USE DEF IInv
<1> DEFINE e == events[r][sent[r] + 1]
<1>1. /\ UNCHANGED <<events, record, start, from, fetches, asked, runId, busy, error, result, committed>>
      /\ socket[r] = "open" /\ sent[r] < Len(events[r])
  BY DEF Deliver, backend
<1>2. /\ feed' = Append(feed, e)
      /\ phase' = IF e.kind \in Terminal THEN e.kind ELSE "executing_sandbox"
      /\ socket' = [socket EXCEPT ![r] = IF e.kind \in Terminal THEN "closed" ELSE @]
      /\ sent' = [sent EXCEPT ![r] = @ + 1]
  BY DEF Deliver
<1>3. /\ r = committed.runId /\ phase \notin Terminal /\ committed.phase \notin Terminal
  BY <1>1 DEF FeedInv, PhaseInv
<1>4. /\ events[r] \in Seq(Message) /\ Len(events[r]) \in Nat /\ sent[r] \in Nat /\ from[r] \in Nat
      /\ sent[r] + 1 \in DOMAIN events[r] /\ e \in Message
  <2>1. events[r] \in Seq(Message) /\ sent[r] \in Nat /\ from[r] \in Nat  BY DEF Types
  <2>2. sent[r] + 1 \in 1 .. Len(events[r])  BY <1>1, <2>1
  <2> QED BY <2>1, <2>2
<1> HIDE DEF e
<1>5. /\ Len(feed') = Len(feed) + 1 /\ feed' \in Seq(Message) /\ feed'[Len(feed) + 1] = e
      /\ \A i \in 1 .. Len(feed) : feed'[i] = feed[i]
      /\ feed \in Seq(Message) /\ Len(feed) \in Nat
  BY <1>2, <1>4, AppendProperties DEF Types
<1>6. /\ sent'[r] = sent[r] + 1 /\ socket'[r] \in {"open", "closed"}
      /\ socket'[r] = "open" => e.kind \notin Terminal
      /\ \A q \in Runs \ {r} : socket'[q] = socket[q] /\ sent'[q] = sent[q]
  BY <1>1, <1>2 DEF Types
<1>7. Types'
  <2>1. /\ socket' \in [Runs -> {"none", "connecting", "open", "closed"}]
        /\ sent' \in [Runs -> Nat] /\ phase' \in Phases
    BY <1>2, <1>4 DEF Types, Phases
  <2> QED BY <1>1, <1>5, <2>1 DEF Types
<1>8. FeedInv'
  <2>1. /\ from[r] <= sent[r] /\ Len(feed) = sent[r] - from[r]
        /\ \A i \in 1 .. Len(feed) : feed[i] = events[r][from[r] + i]
    BY <1>3 DEF FeedInv
  <2>2. from[r] <= sent'[r] /\ sent'[r] <= Len(events[r]) /\ Len(feed') = sent'[r] - from[r]
    BY <1>1, <1>4, <1>5, <1>6, <2>1
  <2>3. ASSUME NEW i \in 1 .. Len(feed') PROVE feed'[i] = events[r][from[r] + i]
    <3>1. CASE i \in 1 .. Len(feed)  BY <1>5, <2>1, <3>1
    <3>2. CASE i = Len(feed) + 1
      <4>1. from[r] + i = sent[r] + 1  BY <1>4, <1>5, <2>1, <3>2
      <4> QED BY <1>5, <3>2, <4>1 DEF e
    <3> QED BY <1>5, <3>1, <3>2
  <2> QED BY <1>1, <1>3, <1>6, <2>2, <2>3 DEF FeedInv
<1>9. PhaseInv'
  <2>1. \A q \in Runs : socket'[q] = "connecting" => FALSE  BY <1>3, <1>6 DEF FeedInv
  <2>2. \A q \in Runs : socket'[q] = "open" => q = r  BY <1>3, <1>6 DEF FeedInv
  <2>3. socket'[r] = "open" => phase' \notin Terminal  BY <1>2, <1>6 DEF Terminal
  <2> QED BY <1>1, <1>3, <2>1, <2>2, <2>3 DEF PhaseInv
<1>10. RecordInv'
  <2>1. phase' = "error" => e.kind = "error"  BY <1>2
  <2>2. e.kind = "error" => record[r] \in Recorded  BY <1>4 DEF e, RecordInv
  <2> QED BY <1>1, <1>3, <2>1, <2>2 DEF RecordInv
<1>11. ShownInv'  BY <1>1, <1>3 DEF ShownInv, Terminal
<1>12. LockInv'
  <2>1. phase' \in Terminal => SomeEnded  BY <1>2, <1>4 DEF SomeEnded, Ended, e, Terminal
  <2> QED BY <1>1, <2>1 DEF LockInv, SomeEnded, Ended, Starting
<1> QED BY <1>7, <1>8, <1>9, <1>10, <1>11, <1>12

LEMMA DisconnectStep == ASSUME IInv, NEW r \in Runs, Disconnect(r) PROVE IInv'
<1> USE DEF IInv
<1>1. UNCHANGED <<events, record, start, from, sent, fetches, asked, runId, busy, error, result, phase,
                  feed, committed>>
  BY DEF Disconnect, backend, page
<1>2. /\ socket' \in [Runs -> {"none", "connecting", "open", "closed"}]
      /\ socket'[r] = "closed" /\ \A q \in Runs \ {r} : socket'[q] = socket[q]
  BY DEF Disconnect, Types
<1>3. Types'  BY <1>1, <1>2 DEF Types
<1>4. FeedInv'  BY <1>1, <1>2 DEF FeedInv
<1>5. PhaseInv'  BY <1>1, <1>2 DEF PhaseInv
<1>6. RecordInv' /\ ShownInv'  BY <1>1 DEF RecordInv, ShownInv, Starting
<1>7. LockInv'  BY <1>1 DEF LockInv, SomeEnded, Ended, Starting
<1> QED BY <1>3, <1>4, <1>5, <1>6, <1>7

-----------------------------------------------------------------------------
(* The fetches. *)

LEMMA ReadStep == ASSUME IInv, NEW f \in fetches, Read(f) PROVE IInv'
<1> USE DEF IInv
<1> DEFINE g == [f EXCEPT !.read = record[f.run]]
<1>1. /\ UNCHANGED <<events, record, start, socket, from, sent, asked, runId, busy, error, result, phase,
                     feed, committed>>
      /\ fetches' = (fetches \ {f}) \cup {g}
  BY DEF Read, backend, page
<1>2. f \in Fetch /\ g \in Fetch /\ g.run = f.run /\ g.read = record[f.run]
  BY DEF Types, Fetch
<1> HIDE DEF g
<1>3. Types'  BY <1>1, <1>2 DEF Types
<1>4. FeedInv' /\ PhaseInv'  BY <1>1 DEF FeedInv, PhaseInv
<1>5. RecordInv'  BY <1>1, <1>2 DEF RecordInv
<1>6. ShownInv'
  <2> SUFFICES ASSUME phase = "error", committed.phase = "error", committed.runId = runId,
                      ~error, ~Starting, record[runId] # "mute"
               PROVE  \E h \in fetches' : h.run = runId /\ h.read \in {"no", "failed"}
    BY <1>1 DEF ShownInv, Starting
  <2>1. PICK h \in fetches : h.run = runId /\ h.read \in {"no", "failed"}  BY DEF ShownInv
  <2>2. CASE h = f
    <3>1. record[runId] = "failed"  BY DEF RecordInv, Recorded
    <3> QED BY <1>1, <1>2, <2>1, <2>2, <3>1
  <2> QED BY <1>1, <2>1, <2>2
<1>7. LockInv'  BY <1>1 DEF LockInv, SomeEnded, Ended, Starting
<1> QED BY <1>3, <1>4, <1>5, <1>6, <1>7

LEMMA ReplyStep == ASSUME IInv, NEW f \in fetches, Reply(f) PROVE IInv'
<1> USE DEF IInv
<1>1. /\ UNCHANGED <<events, record, start, socket, from, sent, asked, runId, phase, feed, committed>>
      /\ f.read # "no" /\ fetches' = fetches \ {f} /\ busy' = FALSE
      /\ result' = IF f.read = "finished" THEN f.run ELSE 0
      /\ error' = (error \/ f.read = "failed")
  BY DEF Reply, backend
<1>2. f \in Fetch  BY DEF Types
<1>3. Types'
  <2>1. f.run \in Runs /\ error' \in BOOLEAN  BY <1>1, <1>2 DEF Fetch, Types
  <2> QED BY <1>1, <2>1 DEF Types
<1>4. FeedInv' /\ PhaseInv'  BY <1>1 DEF FeedInv, PhaseInv
<1>5. RecordInv'  BY <1>1 DEF RecordInv
<1>6. ShownInv'
  <2> SUFFICES ASSUME phase = "error", committed.phase = "error", committed.runId = runId,
                      ~error', ~Starting, record[runId] # "mute"
               PROVE  \E h \in fetches' : h.run = runId /\ h.read \in {"no", "failed"}
    BY <1>1 DEF ShownInv, Starting
  <2>1. PICK h \in fetches : h.run = runId /\ h.read \in {"no", "failed"}
    BY <1>1 DEF ShownInv, Types
  <2>2. h # f  BY <1>1, <2>1 DEF Types
  <2> QED BY <1>1, <2>1, <2>2
<1>7. LockInv'
  <2>1. SomeEnded /\ SomeEnded' = SomeEnded  BY <1>1 DEF LockInv, SomeEnded, Ended
  <2> QED BY <2>1 DEF LockInv
<1> QED BY <1>3, <1>4, <1>5, <1>6, <1>7

LEMMA FetchFailsStep == ASSUME IInv, NEW f \in fetches, FetchFails(f) PROVE IInv'
<1> USE DEF IInv
<1>1. /\ UNCHANGED <<events, record, start, socket, from, sent, asked, runId, result, phase, feed, committed>>
      /\ fetches' = fetches \ {f} /\ error' = TRUE /\ busy' = FALSE
  BY DEF FetchFails, backend
<1>2. Types'  BY <1>1 DEF Types
<1>3. FeedInv' /\ PhaseInv'  BY <1>1 DEF FeedInv, PhaseInv
<1>4. RecordInv'  BY <1>1 DEF RecordInv
<1>5. ShownInv'  BY <1>1 DEF ShownInv
<1>6. LockInv'  BY <1>1 DEF LockInv, SomeEnded, Ended
<1> QED BY <1>2, <1>3, <1>4, <1>5, <1>6

-----------------------------------------------------------------------------
LEMMA Step == IInv /\ [Next]_vars => IInv'
<1> SUFFICES ASSUME IInv, [Next]_vars PROVE IInv'  OBVIOUS
<1>1. CASE UNCHANGED <<events, record, start, net, page, committed>>
  <2>1. UNCHANGED <<socket, from, sent, fetches, asked, runId, busy, error, result, phase, feed>>
    BY <1>1 DEF net, page
  <2>2. Types' /\ FeedInv' /\ PhaseInv'  BY <1>1, <2>1 DEF IInv, Types, FeedInv, PhaseInv
  <2>3. RecordInv' /\ ShownInv'  BY <1>1, <2>1 DEF IInv, RecordInv, ShownInv, Starting
  <2>4. LockInv'  BY <1>1, <2>1 DEF IInv, LockInv, SomeEnded, Ended, Starting
  <2> QED BY <2>2, <2>3, <2>4 DEF IInv
<1>2. CASE UNCHANGED vars  BY <1>1, <1>2 DEF vars, backend
<1>3. CASE TimerFires  BY <1>1, <1>3 DEF TimerFires, backend
<1>4. ASSUME NEW r \in Runs, RunStep(r) PROVE IInv'
  <2>1. BackendKeeps  BY <1>4, BackendStep DEF IInv
  <2> QED BY <2>1, BackendInv
<1>5. ASSUME NEW r \in Runs, Submit(r) \/ Starts(r) \/ Feeding(r) \/ Disconnect(r) PROVE IInv'
  BY <1>5, SubmitStep, StartReplyStep, StartFailsStep, ConnectStep, DeliverStep, DisconnectStep
     DEF Starts, Feeding
<1>6. CASE Fetching  BY <1>6, ReadStep, ReplyStep, FetchFailsStep DEF Fetching
<1> QED BY <1>2, <1>3, <1>4, <1>5, <1>6, CommitStep DEF Next

THEOREM Inductive == Spec => []IInv
<1> QED BY InitIInv, Step, PTL DEF Spec

-----------------------------------------------------------------------------
(* The canvas. *)

LEMMA LeastNumber ==
  ASSUME NEW T \in SUBSET Nat, T # {}
  PROVE  \E x \in T : \A y \in T : x <= y
<1>1. PICK x \in T : \A y \in T : ~ (<<y, x>> \in OpToRel(<, Nat))
  BY NatLessThanWellFounded, WFMin
<1>2. \A y \in T : ~ (y < x)  BY <1>1 DEF OpToRel
<1> QED BY <1>2

LEMMA SetInduction ==
  ASSUME NEW S, 0 \in S, \A k \in Nat : k \in S => k + 1 \in S
  PROVE  Nat \subseteq S
<1> SUFFICES ASSUME NEW n \in Nat, n \notin S PROVE FALSE  OBVIOUS
<1> DEFINE T == {k \in Nat : k \notin S}
<1>1. T \in SUBSET Nat /\ T # {}  OBVIOUS
<1>2. PICK x \in T : \A y \in T : x <= y
  <2> HIDE DEF T
  <2> QED BY <1>1, LeastNumber
<1>3. x # 0 /\ x - 1 \in Nat /\ x - 1 \notin T  BY <1>2
<1> QED BY <1>3

LEMMA MaxOfInterval == ASSUME NEW n \in Nat, NEW s \in SUBSET (1 .. n), n \in s PROVE Max(s) = n
<1>1. \A y \in s : n >= y  OBVIOUS
<1>2. \A x \in s : (\A y \in s : x >= y) => x = n  OBVIOUS
<1> QED BY <1>1, <1>2 DEF Max

\* The functions that FoldLeft of Draw is chosen from.
Folds(g, n, v, es) ==
    g = [s \in SUBSET (1 .. n) |-> IF s = {} THEN v ELSE Draw(g[s \ {Max(s)}], es[Max(s)])]

LEMMA FoldsExists == ASSUME NEW v, NEW es PROVE \A n \in Nat : \E g : Folds(g, n, v, es)
<1> DEFINE S == {n \in Nat : \E g : Folds(g, n, v, es)}
<1>1. 0 \in S
  <2> DEFINE g == [s \in SUBSET (1 .. 0) |-> v]
  <2>1. \A s \in SUBSET (1 .. 0) : s = {}  OBVIOUS
  <2>2. Folds(g, 0, v, es)  BY <2>1 DEF Folds
  <2> QED BY <2>2
<1>2. ASSUME NEW n \in Nat, n \in S PROVE n + 1 \in S
  <2>1. PICK g : Folds(g, n, v, es)  BY <1>2
  <2>2. /\ DOMAIN g = SUBSET (1 .. n)
        /\ \A s \in SUBSET (1 .. n) :
             g[s] = IF s = {} THEN v ELSE Draw(g[s \ {Max(s)}], es[Max(s)])
    BY <2>1 DEF Folds
  <2> DEFINE h == [s \in SUBSET (1 .. n + 1) |->
                     IF n + 1 \in s THEN Draw(g[s \ {n + 1}], es[n + 1]) ELSE g[s]]
  <2>3. ASSUME NEW s \in SUBSET (1 .. n + 1)
        PROVE  h[s] = IF s = {} THEN v ELSE Draw(h[s \ {Max(s)}], es[Max(s)])
    <3>1. CASE n + 1 \in s
      <4>1. Max(s) = n + 1  BY <3>1, MaxOfInterval
      <4>2. s \ {n + 1} \in SUBSET (1 .. n + 1) /\ n + 1 \notin s \ {n + 1} /\ s # {}  BY <3>1
      <4>3. h[s \ {n + 1}] = g[s \ {n + 1}]  BY <4>2
      <4> QED BY <3>1, <4>1, <4>2, <4>3
    <3>2. CASE n + 1 \notin s
      <4>1. s \in SUBSET (1 .. n)  BY <3>2
      <4>2. h[s] = g[s]  BY <3>2
      <4>3. CASE s = {}  BY <2>2, <4>1, <4>2, <4>3
      <4>4. CASE s # {}
        <5>1. s \ {Max(s)} \in SUBSET (1 .. n + 1) /\ n + 1 \notin s \ {Max(s)}  BY <3>2
        <5>2. h[s \ {Max(s)}] = g[s \ {Max(s)}]  BY <5>1
        <5> QED BY <2>2, <4>1, <4>2, <4>4, <5>2
      <4> QED BY <4>3, <4>4
    <3> QED BY <3>1, <3>2
  <2>4. Folds(h, n + 1, v, es)
    <3>1. DOMAIN h = SUBSET (1 .. n + 1)  OBVIOUS
    <3>2. h = [s \in SUBSET (1 .. n + 1) |-> h[s]]  OBVIOUS
    <3> HIDE DEF h
    <3> QED BY <2>3, <3>2 DEF Folds
  <2> QED BY <2>4
<1> HIDE DEF S
<1>3. Nat \subseteq S  BY <1>1, <1>2, SetInduction
<1> QED BY <1>3 DEF S

Drawn(v, es) == FoldLeft(Draw, v, es)

\* h is the sequence of views between the first and the last event.
Draws(h, v, es) ==
    /\ h[0] = v
    /\ \A k \in 1 .. Len(es) : h[k] = Draw(h[k - 1], es[k])
    /\ Drawn(v, es) = h[Len(es)]

\* The events are drawn one after the other.
LEMMA DrawnInOrder ==
  ASSUME NEW v, NEW es, DOMAIN es = 1 .. Len(es), Len(es) \in Nat
  PROVE  \E h : Draws(h, v, es)
<1> DEFINE n == Len(es)
           g == CHOOSE f : Folds(f, n, v, es)
           h == [k \in 0 .. n |-> g[1 .. k]]
<1>1. Drawn(v, es) = g[1 .. n]  BY DEF Drawn, FoldLeft, MapThenFoldSet, Folds
<1>2. Folds(g, n, v, es)  BY FoldsExists
<1> HIDE DEF g
<1>3. \A s \in SUBSET (1 .. n) : g[s] = IF s = {} THEN v ELSE Draw(g[s \ {Max(s)}], es[Max(s)])
  <2>1. g = [s \in SUBSET (1 .. n) |-> IF s = {} THEN v ELSE Draw(g[s \ {Max(s)}], es[Max(s)])]
    BY <1>2 DEF Folds
  <2> QED BY <2>1
<1>4. h[0] = v
  <2>1. 1 .. 0 = {} /\ {} \in SUBSET (1 .. n)  OBVIOUS
  <2>2. g[{}] = v  BY <1>3, <2>1
  <2> QED BY <2>1, <2>2
<1>5. ASSUME NEW k \in 1 .. n PROVE h[k] = Draw(h[k - 1], es[k])
  <2>1. 1 .. k \in SUBSET (1 .. n) /\ k \in 1 .. k /\ 1 .. k # {}  OBVIOUS
  <2>2. Max(1 .. k) = k  BY <2>1, MaxOfInterval
  <2>3. (1 .. k) \ {k} = 1 .. (k - 1) /\ k - 1 \in 0 .. n /\ k \in 0 .. n  OBVIOUS
  <2>4. g[1 .. k] = Draw(g[1 .. (k - 1)], es[k])  BY <1>3, <2>1, <2>2, <2>3
  <2> QED BY <2>3, <2>4
<1>6. n \in 0 .. n  OBVIOUS
<1>7. Drawn(v, es) = h[n]  BY <1>1, <1>6
<1>8. Draws(h, v, es)  BY <1>4, <1>5, <1>7 DEF Draws
<1> QED BY <1>8

\* The ids of the first n messages of a kind.
Ids(f, n, kind) == {f[i].id : i \in {j \in 1 .. n : f[j].kind = kind}}

\* The runs that have been shown, and not the one that is about to be.
Past == {t \in Runs : start[t] = "replied" /\ (runId # committed.runId => t # runId)}

View == [nodes : SUBSET Runs, pulsing : SUBSET Runs, timers : Seq(Runs)]

\* The canvas shows the first n messages of run r.
Shows(v, f, n, r) ==
    /\ v.pulsing = Ids(f, n, "start") \ Ids(f, n, "complete")
    /\ v.pulsing \subseteq v.nodes /\ v.nodes \subseteq Ids(f, n, "start")
    /\ \A i \in DOMAIN v.timers : v.timers[i] = r => r \in Ids(f, n, "complete")

Timed(v, T) == \A i \in DOMAIN v.timers : v.timers[i] \in T

Numbered == \A r \in Runs : \A i \in DOMAIN events[r] :
              events[r][i].id = r /\ (events[r][i].kind = "start" => i = 1)

\* Either the canvas shows what has been processed of the feed, or a new run has
\* emptied the feed and the next commit clears the canvas before anything can arrive.
CanvasInv ==
    /\ Numbered
    /\ processed = committed.length
    /\ committed.runId = 0 => feed = <<>>
    /\ view \in View /\ Timed(view, Past)
    /\ \/ /\ feed = <<>> /\ processed > 0
          /\ \A r \in Runs : socket[r] # "open"
          /\ \A i \in DOMAIN view.timers : view.timers[i] # committed.runId
       \/ processed <= Len(feed) /\ Shows(view, feed, processed, committed.runId)

\* One more message of run r, whose first event alone may start a sandbox.
LEMMA DrawOne ==
  ASSUME NEW r \in Runs, NEW f \in Seq(Message), NEW n \in Nat, n + 1 \in 1 .. Len(f),
         \A i \in 1 .. Len(f) : f[i].id = r, f[n + 1].kind = "start" => n = 0,
         NEW v \in View, NEW T \in SUBSET Runs, r \in T, Timed(v, T), Shows(v, f, n, r)
  PROVE  /\ Draw(v, f[n + 1]) \in View /\ Timed(Draw(v, f[n + 1]), T)
         /\ Shows(Draw(v, f[n + 1]), f, n + 1, r)
<1> DEFINE e == f[n + 1]
           w == Draw(v, e)
           s == Ids(f, n, "start")
           c == Ids(f, n, "complete")
<1>1. e.id = r  OBVIOUS
<1>2. ASSUME NEW kind PROVE Ids(f, n + 1, kind) = IF e.kind = kind THEN Ids(f, n, kind) \cup {r} ELSE Ids(f, n, kind)
  <2>1. {j \in 1 .. n + 1 : f[j].kind = kind}
          = IF e.kind = kind THEN {j \in 1 .. n : f[j].kind = kind} \cup {n + 1}
            ELSE {j \in 1 .. n : f[j].kind = kind}
    <3>1. 1 .. n + 1 = (1 .. n) \cup {n + 1}  OBVIOUS
    <3> QED BY <3>1
  <2> QED BY <1>1, <2>1 DEF Ids
<1>3. /\ Ids(f, n + 1, "start") = IF e.kind = "start" THEN s \cup {r} ELSE s
      /\ Ids(f, n + 1, "complete") = IF e.kind = "complete" THEN c \cup {r} ELSE c
  BY <1>2
<1>4. /\ v.pulsing = s \ c /\ v.pulsing \subseteq v.nodes /\ v.nodes \subseteq s
      /\ \A i \in DOMAIN v.timers : v.timers[i] = r => r \in c
  BY DEF Shows
<1>5. v.nodes \in SUBSET Runs /\ v.pulsing \in SUBSET Runs /\ v.timers \in Seq(Runs)
      /\ v = [nodes |-> v.nodes, pulsing |-> v.pulsing, timers |-> v.timers]
  BY DEF View
<1>6. \A i \in DOMAIN v.timers : v.timers[i] \in T  BY DEF Timed
<1>7. e.kind = "start" => s = {} /\ c = {}
  <2>1. n = 0 => 1 .. n = {}  OBVIOUS
  <2> QED BY <2>1 DEF Ids
<1> HIDE DEF e, s, c
<1>8. CASE e.kind = "start"
  <2>1. r \notin v.nodes  BY <1>4, <1>7, <1>8
  <2>2. e.kind # "complete"  BY <1>8
  <2>3. w = [v EXCEPT !.nodes = @ \cup {r}, !.pulsing = @ \cup {r}]  BY <1>1, <1>8, <2>1, <2>2 DEF Draw
  <2>4. w.nodes = v.nodes \cup {r} /\ w.pulsing = v.pulsing \cup {r} /\ w.timers = v.timers /\ w \in View
    <3>1. w = [nodes |-> v.nodes \cup {r}, pulsing |-> v.pulsing \cup {r}, timers |-> v.timers]
      BY <1>5, <2>3
    <3> QED BY <1>5, <3>1 DEF View
  <2> HIDE DEF w
  <2>5. w.pulsing = (s \cup {r}) \ c /\ w.pulsing \subseteq w.nodes /\ w.nodes \subseteq s \cup {r}
    BY <1>4, <1>7, <1>8, <2>4
  <2>6. Shows(w, f, n + 1, r)  BY <1>3, <1>4, <1>8, <2>2, <2>4, <2>5 DEF Shows
  <2>7. Timed(w, T)  BY <1>6, <2>4 DEF Timed
  <2> QED BY <2>4, <2>6, <2>7 DEF w, e
<1>9. CASE e.kind = "complete"
  <2>1. e.kind # "start"  BY <1>9
  <2>2. w = [v EXCEPT !.pulsing = @ \ {r}, !.timers = Append(@, r)]  BY <1>1, <1>9, <2>1 DEF Draw
  <2>3. w.nodes = v.nodes /\ w.pulsing = v.pulsing \ {r} /\ w.timers = Append(v.timers, r)
    BY <1>5, <2>2
  <2>4. /\ Append(v.timers, r) \in Seq(Runs) /\ Len(Append(v.timers, r)) = Len(v.timers) + 1
        /\ \A i \in 1 .. Len(v.timers) : Append(v.timers, r)[i] = v.timers[i]
        /\ Append(v.timers, r)[Len(v.timers) + 1] = r
    BY <1>5, AppendProperties
  <2>5. w \in View  BY <1>5, <2>2, <2>4 DEF View
  <2> HIDE DEF w
  <2>6. \A i \in DOMAIN w.timers : w.timers[i] = r \/ (i \in DOMAIN v.timers /\ w.timers[i] = v.timers[i])
    <3>1. Len(v.timers) \in Nat /\ DOMAIN v.timers = 1 .. Len(v.timers)  BY <1>5
    <3>2. DOMAIN w.timers = 1 .. Len(v.timers) + 1  BY <2>3, <2>4
    <3> QED BY <2>3, <2>4, <3>1, <3>2
  <2>7. Timed(w, T)  BY <1>6, <2>6 DEF Timed
  <2>8. w.pulsing = s \ (c \cup {r}) /\ w.pulsing \subseteq w.nodes /\ w.nodes \subseteq s
    BY <1>4, <2>3
  <2>9. Shows(w, f, n + 1, r)  BY <1>3, <1>9, <2>1, <2>8 DEF Shows
  <2> QED BY <2>5, <2>7, <2>9 DEF w, e
<1>10. CASE e.kind # "start" /\ e.kind # "complete"
  <2>1. w = v  BY <1>10 DEF Draw
  <2>2. Shows(v, f, n + 1, r)  BY <1>3, <1>4, <1>10 DEF Shows
  <2> QED BY <2>1, <2>2 DEF w, e
<1> QED BY <1>8, <1>9, <1>10

\* What is drawn at a commit: from n messages on to all of them.
LEMMA DrawRest ==
  ASSUME NEW r \in Runs, NEW f \in Seq(Message), NEW n \in Nat, n <= Len(f),
         \A i \in 1 .. Len(f) : f[i].id = r /\ (f[i].kind = "start" => i = 1),
         NEW v \in View, NEW T \in SUBSET Runs, r \in T, Timed(v, T), Shows(v, f, n, r)
  PROVE  LET w == Drawn(v, SubSeq(f, n + 1, Len(f)))
         IN  w \in View /\ Timed(w, T) /\ Shows(w, f, Len(f), r)
<1> DEFINE es == SubSeq(f, n + 1, Len(f))
           m == Len(f) - n
<1>1. /\ Len(f) \in Nat /\ m \in Nat /\ Len(es) = m /\ DOMAIN es = 1 .. m
      /\ \A k \in 1 .. m : es[k] = f[n + k]
  OBVIOUS
<1> HIDE DEF es
<1>2. PICK h : /\ h[0] = v
               /\ \A k \in 1 .. m : h[k] = Draw(h[k - 1], es[k])
               /\ Drawn(v, es) = h[m]
  <2>1. PICK h : Draws(h, v, es)  BY <1>1, DrawnInOrder
  <2> QED BY <1>1, <2>1 DEF Draws
<1> DEFINE Good(k) == h[k] \in View /\ Timed(h[k], T) /\ Shows(h[k], f, n + k, r)
           S == {k \in Nat : k <= m => Good(k)}
<1>3. 0 \in S  BY <1>2
<1>4. ASSUME NEW k \in Nat, k \in S PROVE k + 1 \in S
  <2> SUFFICES ASSUME k + 1 <= m PROVE Good(k + 1)  OBVIOUS
  <2>1. h[k] \in View /\ Timed(h[k], T) /\ Shows(h[k], f, n + k, r)  BY <1>1, <1>4
  <2>2. n + k \in Nat /\ (n + k) + 1 \in 1 .. Len(f)  BY <1>1
  <2>3. f[(n + k) + 1].kind = "start" => n + k = 0  BY <2>2
  <2>4. /\ Draw(h[k], f[(n + k) + 1]) \in View /\ Timed(Draw(h[k], f[(n + k) + 1]), T)
        /\ Shows(Draw(h[k], f[(n + k) + 1]), f, (n + k) + 1, r)
    BY <2>1, <2>2, <2>3, DrawOne
  <2>5. k + 1 \in 1 .. m /\ (k + 1) - 1 = k /\ n + (k + 1) = (n + k) + 1  BY <1>1
  <2>6. h[k + 1] = Draw(h[k], f[(n + k) + 1])  BY <1>1, <1>2, <2>5
  <2> QED BY <2>4, <2>5, <2>6
<1> HIDE DEF S
<1>5. Nat \subseteq S  BY <1>3, <1>4, SetInduction
<1>6. Good(m)  BY <1>1, <1>5 DEF S
<1>7. n + m = Len(f)  BY <1>1
<1> QED BY <1>2, <1>6, <1>7 DEF es

LEMMA InitCanvas == Init => CanvasInv
<1> SUFFICES ASSUME Init PROVE CanvasInv  OBVIOUS
<1>1. Numbered  BY DEF Init, Numbered
<1>2. processed = committed.length /\ feed = <<>> /\ Len(feed) = 0 /\ processed = 0  BY DEF Init
<1>3. /\ view.nodes = {} /\ view.pulsing = {} /\ view.timers = <<>> /\ view \in View
  BY DEF Init, View
<1>4. \A i \in DOMAIN view.timers : FALSE  BY <1>3
<1>5. \A kind : Ids(feed, 0, kind) = {}  BY DEF Ids
<1>6. Shows(view, feed, 0, committed.runId) /\ Timed(view, Past)  BY <1>3, <1>4, <1>5 DEF Shows, Timed
<1> QED BY <1>1, <1>2, <1>3, <1>6 DEF CanvasInv

\* What the feed holds is of the committed run, and a start comes first.
LEMMA FeedNumbered ==
  ASSUME IInv, Numbered, committed.runId \in Runs, NEW i \in 1 .. Len(feed)
  PROVE  feed[i].id = committed.runId /\ (feed[i].kind = "start" => i = 1)
<1> DEFINE r == committed.runId
<1>1. from[r] \in Nat /\ sent[r] \in Nat /\ feed \in Seq(Message) /\ events[r] \in Seq(Message)
  BY DEF IInv, Types
<1>2. sent[r] <= Len(events[r]) /\ Len(feed) = sent[r] - from[r] /\ feed[i] = events[r][from[r] + i]
  BY DEF IInv, FeedInv
<1>3. from[r] + i \in DOMAIN events[r]  BY <1>1, <1>2
<1>4. feed[i].id = r /\ (feed[i].kind = "start" => from[r] + i = 1)  BY <1>2, <1>3 DEF Numbered
<1>5. from[r] + i = 1 => i = 1  BY <1>1
<1> QED BY <1>4, <1>5

\* A step that does not touch what the canvas depends on.
LEMMA CanvasUntouched ==
  ASSUME CanvasInv, Numbered', UNCHANGED <<feed, committed, processed, view>>,
         \A r \in Runs : socket'[r] = "open" => socket[r] = "open", Past \subseteq Past'
  PROVE  CanvasInv'
<1>1. Timed(view', Past')  BY DEF CanvasInv, Timed
<1>2. Shows(view', feed', processed', committed'.runId) <=> Shows(view, feed, processed, committed.runId)
  OBVIOUS
<1> QED BY <1>1, <1>2 DEF CanvasInv

LEMMA BackendCanvas == ASSUME IInv, ~SharedIds, CanvasInv, NEW r \in Runs, RunStep(r) PROVE CanvasInv'
<1>1. BackendKeeps  BY BackendStep DEF IInv
<1>2. UNCHANGED <<feed, committed, processed, view, socket, runId>>
  BY DEF RunStep, Create, RunSandbox, Announce, Store, RecordFailure, FailureLost,
         PublishError, net, page, canvas
<1>3. Past \subseteq Past'  BY <1>1, <1>2 DEF BackendKeeps, Past
<1>4. Numbered'
  <2>1. CASE UNCHANGED events  BY <2>1 DEF CanvasInv, Numbered
  <2>2. CASE ~UNCHANGED events
    <3>1. PICK kind \in Kinds : Publish(r, kind) /\ (kind = "start" => events[r] = <<>>)
      BY <2>2 DEF RunStep, Create, RunSandbox, Announce, Store, RecordFailure, FailureLost,
             PublishError, Kinds
    <3> DEFINE e == Event(kind, r)
    <3>2. e.id = r /\ e.kind = kind /\ e \in Message
      BY RunsAssumption DEF Event, IdOf, Message, Runs
    <3> HIDE DEF e
    <3>3. events \in [Runs -> Seq(Message)] /\ events[r] \in Seq(Message)  BY DEF IInv, Types
    <3>4. events' = [events EXCEPT ![r] = Append(@, e)]  BY <3>1 DEF Publish, e
    <3>5. events'[r] = Append(events[r], e) /\ \A q \in Runs \ {r} : events'[q] = events[q]
      BY <3>3, <3>4
    <3>6. /\ Append(events[r], e) \in Seq(Message)
          /\ Len(Append(events[r], e)) = Len(events[r]) + 1
          /\ \A i \in 1 .. Len(events[r]) : Append(events[r], e)[i] = events[r][i]
          /\ Append(events[r], e)[Len(events[r]) + 1] = e
      BY <3>2, <3>3, AppendProperties
    <3>7. ASSUME NEW i \in DOMAIN events'[r]
          PROVE  events'[r][i].id = r /\ (events'[r][i].kind = "start" => i = 1)
      <4>1. i \in 1 .. Len(events[r]) \/ i = Len(events[r]) + 1  BY <3>3, <3>5, <3>6
      <4>2. CASE i \in 1 .. Len(events[r])
        <5>1. i \in DOMAIN events[r]  BY <3>3, <4>2
        <5> QED BY <3>5, <3>6, <4>2, <5>1 DEF CanvasInv, Numbered
      <4>3. CASE i = Len(events[r]) + 1
        <5>1. kind = "start" => Len(events[r]) = 0  BY <3>1
        <5>2. kind = "start" => i = 1  BY <4>3, <5>1
        <5> QED BY <3>2, <3>5, <3>6, <4>3, <5>2
      <4> QED BY <4>1, <4>2, <4>3
    <3> QED BY <3>5, <3>7 DEF CanvasInv, Numbered
  <2> QED BY <2>1, <2>2
<1> QED BY <1>2, <1>3, <1>4, CanvasUntouched

LEMMA SubmitCanvas ==
  ASSUME IInv, CanvasInv, NEW r \in Runs, Submit(r) \/ Starts(r) PROVE CanvasInv'
<1>1. UNCHANGED <<events, feed, committed, processed, view, socket>>
  BY DEF Submit, Starts, StartReply, StartFails, net, canvas
<1>2. Numbered'  BY <1>1 DEF CanvasInv, Numbered
<1>3. start[r] # "replied" /\ \A q \in Runs \ {r} : start'[q] = start[q]
  BY DEF Submit, Starts, StartReply, StartFails, IInv, Types
<1>4. runId' = runId \/ runId' = r  BY DEF Submit, Starts, StartReply, StartFails
<1>5. Past \subseteq Past'
  <2> SUFFICES ASSUME NEW t \in Past PROVE t \in Past'  OBVIOUS
  <2>1. t \in Runs /\ start[t] = "replied" /\ (runId # committed.runId => t # runId)  BY DEF Past
  <2>2. t # r /\ start'[t] = "replied"  BY <1>3, <2>1
  <2> QED BY <1>1, <1>4, <2>1, <2>2 DEF Past
<1> QED BY <1>1, <1>2, <1>5, CanvasUntouched

LEMMA SocketCanvas ==
  ASSUME IInv, CanvasInv, NEW r \in Runs, Feeding(r) \/ Disconnect(r) PROVE CanvasInv'
<1>1. UNCHANGED <<events, start, runId, committed, processed, view>>
  BY DEF Feeding, Connect, Deliver, Disconnect, backend, page, canvas
<1>2. Numbered' /\ Past \subseteq Past'  BY <1>1 DEF CanvasInv, Numbered, Past
<1>3. CASE Disconnect(r)
  <2>1. feed' = feed /\ \A q \in Runs : socket'[q] = "open" => socket[q] = "open"
    BY <1>3 DEF Disconnect, page, IInv, Types
  <2> QED BY <1>1, <1>2, <2>1, CanvasUntouched
<1>4. CASE Connect(r)
  <2>1. feed' = feed /\ committed.length = Len(feed)  BY <1>4 DEF Connect, page, Uncommitted
  <2>2. ~(feed = <<>> /\ processed > 0)  BY <2>1 DEF CanvasInv
  <2>3. Timed(view', Past')  BY <1>1, <1>2 DEF CanvasInv, Timed
  <2>4. Shows(view', feed', processed', committed'.runId) /\ processed' <= Len(feed')
    BY <1>1, <2>1, <2>2 DEF CanvasInv
  <2> QED BY <1>1, <1>2, <2>1, <2>3, <2>4 DEF CanvasInv
<1>5. CASE Deliver(r)
  <2> DEFINE e == events[r][sent[r] + 1]
  <2>1. socket[r] = "open" /\ sent[r] < Len(events[r]) /\ feed' = Append(feed, e)
    BY <1>5 DEF Deliver
  <2>2. r = committed.runId /\ r # 0  BY <2>1 DEF IInv, FeedInv, Runs
  <2>3. processed <= Len(feed) /\ Shows(view, feed, processed, r)  BY <2>1, <2>2 DEF CanvasInv
  <2>4. e \in Message /\ feed \in Seq(Message) /\ processed \in Nat
    <3>1. events[r] \in Seq(Message) /\ sent[r] \in Nat /\ feed \in Seq(Message) /\ committed.length \in Nat
      BY DEF IInv, Types
    <3> QED BY <2>1, <3>1 DEF CanvasInv
  <2> HIDE DEF e
  <2>5. /\ Len(feed') = Len(feed) + 1 /\ \A i \in 1 .. Len(feed) : feed'[i] = feed[i]
        /\ Len(feed) \in Nat
    BY <2>1, <2>4, AppendProperties
  <2>6. processed <= Len(feed') /\ \A i \in 1 .. processed : feed'[i] = feed[i]  BY <2>3, <2>4, <2>5
  <2>7. \A kind : Ids(feed', processed, kind) = Ids(feed, processed, kind)  BY <2>6 DEF Ids
  <2>8. Shows(view, feed', processed, r)  BY <2>3, <2>7 DEF Shows
  <2>9. Timed(view', Past')  BY <1>1, <1>2 DEF CanvasInv, Timed
  <2> QED BY <1>1, <1>2, <2>2, <2>6, <2>8, <2>9 DEF CanvasInv
<1> QED BY <1>3, <1>4, <1>5 DEF Feeding

LEMMA TimerCanvas == ASSUME IInv, CanvasInv, TimerFires PROVE CanvasInv'
<1> DEFINE x == Head(view.timers)
           r == committed.runId
           s == Ids(feed, processed, "start")
           c == Ids(feed, processed, "complete")
<1>1. UNCHANGED <<events, start, runId, committed, processed, feed, socket>>
  BY DEF TimerFires, backend, net, page
<1>2. /\ view.timers # <<>>
      /\ view' = [nodes |-> view.nodes \ {x}, pulsing |-> view.pulsing \ {x}, timers |-> Tail(view.timers)]
  BY DEF TimerFires
<1>3. view.timers \in Seq(Runs) /\ view.nodes \in SUBSET Runs /\ view.pulsing \in SUBSET Runs
  BY DEF CanvasInv, View
<1>4. /\ Tail(view.timers) \in Seq(Runs) /\ 1 \in DOMAIN view.timers /\ x = view.timers[1]
      /\ \A i \in DOMAIN Tail(view.timers) :
           i + 1 \in DOMAIN view.timers /\ Tail(view.timers)[i] = view.timers[i + 1]
  BY <1>2, <1>3
<1>5. view' \in View
  <2>1. view.nodes \ {x} \in SUBSET Runs /\ view.pulsing \ {x} \in SUBSET Runs  BY <1>3
  <2> HIDE DEF x
  <2> QED BY <1>2, <1>4, <2>1 DEF View
<1>6. /\ view'.nodes = view.nodes \ {x} /\ view'.pulsing = view.pulsing \ {x}
      /\ view'.timers = Tail(view.timers)
  BY <1>2
<1> HIDE DEF x
<1>7. Timed(view', Past')
  <2>1. Past' = Past  BY <1>1 DEF Past
  <2> QED BY <1>4, <1>6, <2>1 DEF CanvasInv, Timed
<1>8. CASE Shows(view, feed, processed, r) /\ processed <= Len(feed)
  <2>1. /\ view.pulsing = s \ c /\ view.pulsing \subseteq view.nodes /\ view.nodes \subseteq s
        /\ \A i \in DOMAIN view.timers : view.timers[i] = r => r \in c
    BY <1>8 DEF Shows
  <2>2. s \subseteq {r}
    <3> SUFFICES ASSUME NEW i \in 1 .. processed PROVE feed[i].id = r  BY DEF Ids
    <3>1. feed \in Seq(Message) /\ committed.length \in Nat /\ r \in Runs \cup {0}  BY DEF IInv, Types
    <3>2. i \in 1 .. Len(feed) /\ feed # <<>>  BY <1>8, <3>1 DEF CanvasInv
    <3>3. r \in Runs /\ Numbered  BY <3>1, <3>2 DEF CanvasInv
    <3> QED BY <3>2, <3>3, FeedNumbered
  <2> HIDE DEF s, c
  <2>3. x \notin view.pulsing  BY <1>4, <2>1, <2>2
  <2>4. view'.pulsing = s \ c /\ view'.pulsing \subseteq view'.nodes /\ view'.nodes \subseteq s
    BY <1>6, <2>1, <2>3
  <2>5. \A i \in DOMAIN view'.timers : view'.timers[i] = r => r \in c  BY <1>4, <1>6, <2>1
  <2>6. Shows(view', feed, processed, r)  BY <2>4, <2>5 DEF Shows, s, c
  <2> QED BY <1>1, <1>5, <1>7, <1>8, <2>6 DEF CanvasInv, Numbered
<1>9. CASE /\ feed = <<>> /\ processed > 0
           /\ \A q \in Runs : socket[q] # "open"
           /\ \A i \in DOMAIN view.timers : view.timers[i] # r
  <2>1. \A i \in DOMAIN view'.timers : view'.timers[i] # r  BY <1>4, <1>6, <1>9
  <2> QED BY <1>1, <1>5, <1>7, <1>9, <2>1 DEF CanvasInv, Numbered
<1> QED BY <1>8, <1>9 DEF CanvasInv

\* After the effects of a commit the canvas shows the feed as it was before them.
LEMMA CommitDraws ==
  ASSUME IInv, CanvasInv, Commit
  PROVE  view' \in View /\ Timed(view', Past) /\ Shows(view', feed, Len(feed), committed.runId)
<1> DEFINE r == committed.runId
           cleared == IF feed = <<>> /\ committed.length > 0
                      THEN [view EXCEPT !.nodes = {}, !.pulsing = {}] ELSE view
           es == SubSeq(feed, processed + 1, Len(feed))
<1>1. view' = Drawn(cleared, es)  BY DEF Commit, CanvasEffects, Drawn
<1>2. feed \in Seq(Message) /\ Len(feed) \in Nat /\ processed \in Nat /\ processed = committed.length
      /\ r \in Runs \cup {0}
  BY DEF IInv, Types, CanvasInv
<1>3. /\ view.nodes \in SUBSET Runs /\ view.pulsing \in SUBSET Runs /\ view.timers \in Seq(Runs)
      /\ view = [nodes |-> view.nodes, pulsing |-> view.pulsing, timers |-> view.timers]
  BY DEF CanvasInv, View
<1>4. CASE feed = <<>>
  <2>1. DOMAIN es = 1 .. Len(es) /\ Len(es) = 0  BY <1>2, <1>4
  <2> HIDE DEF es, cleared
  <2>2. PICK h : Draws(h, cleared, es)  BY <2>1, DrawnInOrder
  <2>3. view' = cleared  BY <1>1, <2>1, <2>2 DEF Draws
  <2>4. \A kind : Ids(feed, 0, kind) = {}  BY DEF Ids
  <2>5. CASE processed > 0
    <3>1. cleared = [nodes |-> {}, pulsing |-> {}, timers |-> view.timers]
      BY <1>2, <1>3, <1>4, <2>5 DEF cleared
    <3>2. view'.nodes = {} /\ view'.pulsing = {} /\ view'.timers = view.timers /\ view' \in View
      BY <1>3, <2>3, <3>1 DEF View
    <3>3. \A i \in DOMAIN view.timers : view.timers[i] # r  BY <1>2, <1>4, <2>5 DEF CanvasInv
    <3> QED BY <1>4, <2>4, <3>2, <3>3 DEF CanvasInv, Shows, Timed
  <2>6. CASE processed = 0
    <3>1. cleared = view  BY <1>2, <2>6 DEF cleared
    <3> QED BY <1>4, <2>3, <2>6, <3>1 DEF CanvasInv
  <2> QED BY <1>2, <2>5, <2>6
<1>5. CASE feed # <<>>
  <2>1. r \in Runs /\ cleared = view  BY <1>2, <1>5 DEF CanvasInv
  <2>2. processed <= Len(feed) /\ Shows(view, feed, processed, r)  BY <1>5 DEF CanvasInv
  <2>3. \A i \in 1 .. Len(feed) : feed[i].id = r /\ (feed[i].kind = "start" => i = 1)
    BY <2>1, FeedNumbered DEF CanvasInv
  <2>4. r \in Past /\ Past \in SUBSET Runs  BY <2>1 DEF Past, IInv, PhaseInv, Runs
  <2>5. view \in View /\ Timed(view, Past)  BY DEF CanvasInv
  <2> HIDE DEF cleared
  <2> QED BY <1>1, <1>2, <2>1, <2>2, <2>3, <2>4, <2>5, DrawRest
<1> QED BY <1>4, <1>5

LEMMA CommitCanvas == ASSUME IInv, CanvasInv, Commit PROVE CanvasInv'
<1>1. view' \in View /\ Timed(view', Past) /\ Shows(view', feed, Len(feed), committed.runId)
  BY CommitDraws
<1>2. /\ UNCHANGED <<events, start, runId>> /\ processed' = Len(feed)
      /\ committed'.runId = runId /\ committed'.length = Len(feed)
  BY DEF Commit, CanvasEffects, backend
<1>3. Numbered'  BY <1>2 DEF CanvasInv, Numbered
<1>4. Timed(view', Past')
  <2>1. Past \subseteq Past'  BY <1>2 DEF Past
  <2> QED BY <1>1, <2>1 DEF Timed
<1>5. Len(feed) \in Nat  BY DEF IInv, Types
<1>6. CASE runId = committed.runId
  <2>1. feed' = feed  BY <1>6 DEF Commit
  <2>2. Shows(view', feed', processed', committed'.runId) /\ processed' <= Len(feed')
    BY <1>1, <1>2, <1>5, <1>6, <2>1
  <2> QED BY <1>1, <1>2, <1>3, <1>4, <1>6, <2>1, <2>2 DEF CanvasInv
<1>7. CASE runId # committed.runId
  <2>1. feed' = <<>> /\ \A r \in Runs : socket'[r] # "open"  BY <1>7 DEF Commit, Subscribe
  <2>2. \A i \in DOMAIN view'.timers : view'.timers[i] # committed'.runId
    BY <1>1, <1>2, <1>7 DEF Timed, Past
  <2>3. CASE Len(feed) > 0  BY <1>1, <1>2, <1>3, <1>4, <2>1, <2>2, <2>3 DEF CanvasInv
  <2>4. CASE Len(feed) = 0
    <3>1. Shows(view', feed, 0, committed.runId) /\ \A kind : Ids(feed, 0, kind) = {} /\ Ids(feed', 0, kind) = {}
      BY <1>1, <2>4 DEF Ids
    <3>2. Shows(view', feed', 0, committed'.runId)  BY <2>2, <3>1 DEF Shows
    <3>3. Len(feed') = 0  BY <2>1
    <3> QED BY <1>1, <1>2, <1>3, <1>4, <2>1, <2>4, <3>2, <3>3 DEF CanvasInv
  <2> QED BY <1>5, <2>3, <2>4
<1> QED BY <1>6, <1>7

LEMMA CanvasStep == ASSUME IInv, ~SharedIds, CanvasInv, [Next]_vars PROVE CanvasInv'
<1>1. CASE UNCHANGED <<events, start, runId, feed, committed, canvas, socket>>
  <2>1. Numbered' /\ Past \subseteq Past' /\ UNCHANGED <<processed, view>>
    BY <1>1 DEF CanvasInv, Numbered, Past, canvas
  <2> QED BY <1>1, <2>1, CanvasUntouched
<1>2. CASE Fetching  BY <1>1, <1>2 DEF Fetching, Read, Reply, FetchFails, backend, page
<1>3. CASE UNCHANGED vars  BY <1>1, <1>3 DEF vars, backend, net, page
<1> QED BY <1>2, <1>3, BackendCanvas, SubmitCanvas, SocketCanvas, TimerCanvas, CommitCanvas DEF Next

-----------------------------------------------------------------------------
(* The theorems. *)

\* The feed is the gapless piece of the shown run's events from the subscription on,
\* and no socket of another run can write into it, however submissions and their
\* replies interleave (useTelemetry's cleanup).
THEOREM FeedAlwaysOfTheRun == Spec => []FeedIsOfTheRun
<1>1. IInv => FeedIsOfTheRun
  <2> SUFFICES ASSUME IInv, committed.runId = runId, runId # 0 PROVE
          /\ feed = SubSeq(events[runId], from[runId] + 1, sent[runId])
          /\ \A r \in Runs \ {runId} : socket[r] \in {"none", "closed"}
    BY DEF FeedIsOfTheRun
  <2>1. runId \in Runs  BY DEF IInv, Types
  <2> DEFINE s == events[runId]
             m == from[runId]
             n == sent[runId]
  <2>2. s \in Seq(Message) /\ m \in Nat /\ n \in Nat /\ Len(s) \in Nat /\ feed \in Seq(Message)
    BY <2>1 DEF IInv, Types
  <2>3. m <= n /\ n <= Len(s) /\ Len(feed) = n - m /\ \A i \in 1 .. Len(feed) : feed[i] = s[m + i]
    BY <2>1 DEF IInv, FeedInv
  <2> HIDE DEF s, m, n
  <2>4. feed = SubSeq(s, m + 1, n)
    <3>1. m + 1 \in 1 .. Len(s) + 1 /\ n \in m .. Len(s)  BY <2>2, <2>3
    <3>2. SubSeq(s, m + 1, n) = [i \in 1 .. n - m |-> s[m + i]]  BY <2>2
    <3>3. feed = [i \in 1 .. Len(feed) |-> feed[i]]  BY <2>2
    <3> QED BY <2>3, <3>2, <3>3
  <2> QED BY <2>1, <2>4 DEF IInv, FeedInv, s, m, n
<1> QED BY <1>1, Inductive, PTL

\* A failed run is shown without an answer of its own and with an error, unless the
\* one recorded has no text, once its fetch is back (registry.fail before the ERROR event; the effect on [phase, runId]).
THEOREM ErrorAlwaysShown == Spec => []ErrorIsShown
<1>1. IInv => ErrorIsShown
  <2> SUFFICES ASSUME IInv, phase = "error", ~Uncommitted, ~Starting, \A f \in fetches : f.run # runId
               PROVE  result # runId /\ (error \/ record[runId] = "mute")
    BY DEF ErrorIsShown
  <2>1. committed.phase = phase /\ committed.runId = runId  BY DEF Uncommitted
  <2>2. error \/ record[runId] = "mute"  BY <2>1 DEF IInv, ShownInv
  <2>3. runId \in Runs /\ record[runId] \in Recorded /\ 0 \notin Runs
    BY <2>1 DEF IInv, RecordInv, Runs
  <2>4. result # runId  BY <2>3 DEF IInv, RecordInv, Recorded
  <2> QED BY <2>2, <2>4
<1> QED BY <1>1, Inductive, PTL

\* While no run has ended, the composer is released only together with an error.
THEOREM UnlockAlwaysHasReason == Spec => []UnlockedHasReason
<1>1. IInv => UnlockedHasReason  BY DEF IInv, LockInv, SomeEnded, UnlockedHasReason
<1> QED BY <1>1, Inductive, PTL

\* Where tool call ids are unique, the pulsing edges are those of the sandboxes of the
\* shown run that have started and are not complete, and no timer of an earlier run
\* takes one away (the processed ref and the timers of OrchestratorCanvas).
THEOREM CanvasAlwaysOfTheRun == Spec => []CanvasShowsOpenSandboxes
<1>1. IInv /\ CanvasInv => CanvasShowsOpenSandboxes
  <2> SUFFICES ASSUME IInv, CanvasInv, ~Uncommitted
      PROVE  LET ids(kind) == {feed[i].id : i \in {j \in DOMAIN feed : feed[j].kind = kind}}
             IN  /\ view.pulsing = ids("start") \ ids("complete")
                 /\ view.pulsing \subseteq view.nodes /\ view.nodes \subseteq ids("start")
    BY DEF CanvasShowsOpenSandboxes
  <2>1. committed.length = Len(feed) /\ feed \in Seq(Message)  BY DEF Uncommitted, IInv, Types
  <2>2. DOMAIN feed = 1 .. Len(feed)  BY <2>1
  <2>3. Shows(view, feed, Len(feed), committed.runId)  BY <2>1 DEF CanvasInv
  <2> QED BY <2>2, <2>3 DEF Shows, Ids
<1>2. SharedIds => CanvasShowsOpenSandboxes  BY DEF CanvasShowsOpenSandboxes
<1> DEFINE I == IInv /\ (SharedIds \/ CanvasInv)
<1>3. Init => I  BY InitIInv, InitCanvas
<1>4. I /\ [Next]_vars => I'  BY Step, CanvasStep
<1>5. I => CanvasShowsOpenSandboxes  BY <1>1, <1>2
<1> HIDE DEF I
<1> QED BY <1>3, <1>4, <1>5, PTL DEF Spec
=============================================================================
