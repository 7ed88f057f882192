---------------------------- MODULE Discord_proofs ----------------------------
(* What is proved of the bridge to Discord, for any number of lines, checks,  *)
(* notifications, messages and faults: of the feed that posts, and of the     *)
(* Gateway client and the router that receive.                                *)
EXTENDS DiscordFeed, DiscordInbound, SequenceTheorems, TLAPS

-----------------------------------------------------------------------------
(* The feed.                                                                *)

\* The lines of a buffer, and of one with a line more.
LEMMA RangeLines ==
    ASSUME NEW q \in Seq(Lines)
    PROVE  Range(q) \subseteq Lines /\ (q # <<>> => Range(q) # {}) /\ Range(<<>>) = {}
  <1>1. Len(q) \in Nat /\ DOMAIN q = 1..Len(q) /\ (q # <<>> => Len(q) > 0)
    OBVIOUS
  <1>2. Range(q) \subseteq Lines
    BY <1>1 DEF Range
  <1>3. q # <<>> => Range(q) # {}
    BY <1>1 DEF Range
  <1>4. Range(<<>>) = {}
    BY DEF Range
  <1> QED BY <1>2, <1>3, <1>4

\* The lines of a buffer with a line more.
LEMMA RangeAppend ==
    ASSUME NEW q \in Seq(Lines), NEW n \in Lines
    PROVE  Range(Append(q, n)) = Range(q) \cup {n}
  <1>1. /\ DOMAIN q = 1..Len(q) /\ DOMAIN Append(q, n) = 1..(Len(q) + 1) /\ Len(q) \in Nat
        /\ \A i \in 1..Len(q) : Append(q, n)[i] = q[i]
        /\ Append(q, n)[Len(q) + 1] = n
    OBVIOUS
  <1>2. ASSUME NEW x \in Range(Append(q, n)) PROVE x \in Range(q) \cup {n}
    BY <1>1, <1>2 DEF Range
  <1>3. ASSUME NEW x \in Range(q) \cup {n} PROVE x \in Range(Append(q, n))
    BY <1>1, <1>3 DEF Range
  <1> QED BY <1>2, <1>3

\* A coroutine that is started, or goes on to its next await.
LEMMA JobStarts ==
    ASSUME NEW what \in SUBSET Contents, what # {}, NEW at \in {"coords", "lookup"},
           NEW subject \in Subjects
    PROVE  JobOK(Job(what, at, subject))
  BY DEF JobOK, Job, Places, Threads, NoThread

\* The coroutine that a drained buffer starts is one.
LEMMA DrainedTyped ==
    ASSUME TypeOK, Drained(buf)
    PROVE  \A j \in jobs' : JobOK(j)
  <1>1. buf.lines \in Seq(Lines)
    BY DEF TypeOK
  <1>2. CASE buf.lines # <<>>
    <2>1. JobOK(Job(Range(buf.lines), "lookup", "stream"))
      BY <1>1, <1>2, RangeLines, JobStarts DEF Contents, Subjects
    <2> QED BY <2>1 DEF Drained, TypeOK
  <1> QED BY <1>2 DEF Drained, TypeOK

\* A coroutine that goes on takes the place of what it was.
LEMMA JobsMove ==
    ASSUME TypeOK, NEW j \in jobs, NEW k, Becomes(j, k), JobOK(k)
    PROVE  \A i \in jobs' : JobOK(i)
  BY DEF TypeOK, Becomes

\* What is settled has a fate and a thread.
LEMMA SettlesTyped ==
    ASSUME TypeOK, NEW j \in jobs, NEW as \in {"posted", "failed"}, NEW thread \in Threads \cup {NoThread},
           Settles(j, as, thread)
    PROVE  /\ \A i \in jobs' : JobOK(i)
           /\ fate' \in [Contents -> {"new", "held", "posted", "failed", "lost"}]
           /\ posted' \in [Contents -> Threads \cup {NoThread}]
  BY DEF TypeOK, Settles

\* What comes in keeps the types.
LEMMA ComesTyped ==
    ASSUME TypeOK, NEW c \in Contents, Comes(c)
    PROVE  /\ fate' \in [Contents -> {"new", "held", "posted", "failed", "lost"}]
           /\ UNCHANGED <<coming, posted>>
  BY DEF TypeOK, Comes

\* What fails is counted within its bound.
LEMMA FaultTyped ==
    ASSUME TypeOK, Fault
    PROVE  faults' \in 0..MaxFaults
  <1>1. faults \in 0..MaxFaults
    BY DEF TypeOK
  <1> QED BY <1>1, FaultsType DEF Fault

\* The steps of a post keep its coroutine in its domain.
LEMMA PostsTyped ==
    ASSUME TypeOK, NEW j \in jobs,
           Coords(j) \/ Lookup(j) \/ CreateThread(j) \/ Save(j) \/ Refetch(j) \/ PostMessage(j) \/ PostFlat(j)
    PROVE  TypeOK'
  <1> USE DEF NoThread, Threads
  <1>0. /\ JobOK(j) /\ j.thread \in Threads \cup {NoThread} /\ j.subject \in Subjects
        /\ binding \in [Subjects -> Threads \cup {NoThread}] /\ created \in Nat
    BY DEF TypeOK, JobOK
  <1>1. CASE Coords(j)
    <2>1. PICK s \in Subjects : Becomes(j, [j EXCEPT !.at = "lookup", !.subject = s])
      <3>1. [j EXCEPT !.at = "lookup"] = [j EXCEPT !.at = "lookup", !.subject = j.subject]
        BY <1>0 DEF JobOK
      <3> QED BY <1>0, <1>1, <3>1 DEF Coords, Subjects
    <2>2. JobOK([j EXCEPT !.at = "lookup", !.subject = s])
      BY <1>0 DEF JobOK, Places
    <2>3. faults' \in 0..MaxFaults
      BY <1>1, FaultTyped DEF Coords, TypeOK
    <2> QED BY <1>1, <2>1, <2>2, <2>3, JobsMove DEF Coords, TypeOK, bufferVars, threadVars, fateVars
  <1>2. CASE Lookup(j)
    <2>1. PICK k : Becomes(j, k) /\ JobOK(k)
      <3> DEFINE found == [j EXCEPT !.at = "post", !.thread = binding[j.subject]]
                 missing == [j EXCEPT !.at = IF j.what \subseteq Replies THEN "flat" ELSE "create"]
      <3>1. binding[j.subject] # NoThread => JobOK(found)
        BY <1>0 DEF JobOK, Places
      <3>2. JobOK(missing)
        BY <1>0 DEF JobOK, Places
      <3>3. (binding[j.subject] # NoThread /\ Becomes(j, found)) \/ Becomes(j, missing)
        BY <1>2 DEF Lookup
      <3> HIDE DEF found, missing
      <3> QED BY <3>1, <3>2, <3>3
    <2>2. faults' \in 0..MaxFaults
      BY <1>2, FaultTyped DEF Lookup, TypeOK
    <2> QED BY <1>2, <2>1, <2>2, JobsMove DEF Lookup, TypeOK, bufferVars, threadVars, fateVars
  <1>3. CASE CreateThread(j)
    <2>1. CASE created' = created + 1 /\ Becomes(j, [j EXCEPT !.at = "save", !.thread = created'])
               /\ UNCHANGED <<fateVars, faults>>
      <3>1. JobOK([j EXCEPT !.at = "save", !.thread = created'])
        <4>1. created' \in Threads /\ created' # NoThread
          BY <1>0, <2>1
        <4>2. ~ (j.what \subseteq Replies)
          BY <1>0, <1>3 DEF CreateThread, JobOK
        <4> HIDE DEF Threads
        <4> QED BY <1>0, <4>1, <4>2 DEF JobOK, Places
      <3> QED BY <1>0, <1>3, <2>1, <3>1, JobsMove DEF CreateThread, TypeOK, bufferVars, fateVars
    <2>2. CASE Fault /\ UNCHANGED created /\ Settles(j, "failed", NoThread)
      BY <1>0, <1>3, <2>2, SettlesTyped, FaultTyped DEF CreateThread, TypeOK, bufferVars, Settles
    <2>3. CASE Fault /\ UNCHANGED created /\ Becomes(j, [j EXCEPT !.at = "flat"]) /\ UNCHANGED fateVars
      <3>1. JobOK([j EXCEPT !.at = "flat"])
        BY <1>0 DEF JobOK, Places
      <3> QED BY <1>0, <1>3, <2>3, <3>1, JobsMove, FaultTyped DEF CreateThread, TypeOK, bufferVars, fateVars
    <2> QED BY <1>3, <2>1, <2>2, <2>3 DEF CreateThread
  <1>4. CASE Save(j)
    <2>1. JobOK([j EXCEPT !.at = "refetch"])
      BY <1>0, <1>4 DEF Save, JobOK, Places
    <2>2. binding' \in [Subjects -> Threads \cup {NoThread}] /\ unsaved' \subseteq Threads
      BY <1>0, <1>4 DEF Save, JobOK, TypeOK
    <2>3. faults' \in 0..MaxFaults
      BY <1>4, FaultTyped DEF Save, TypeOK
    <2> QED BY <1>4, <2>1, <2>2, <2>3, JobsMove DEF Save, TypeOK, bufferVars, fateVars
  <1>5. CASE Refetch(j)
    <2>1. PICK k : Becomes(j, k) /\ JobOK(k)
      <3>1. PICK thread \in Threads \cup {NoThread} :
                thread # NoThread /\ Becomes(j, [j EXCEPT !.at = "post", !.thread = thread])
        <4>1. [j EXCEPT !.at = "post"] = [j EXCEPT !.at = "post", !.thread = j.thread]
          BY <1>0 DEF JobOK
        <4> QED BY <1>0, <1>5, <4>1 DEF Refetch, JobOK
      <3>2. JobOK([j EXCEPT !.at = "post", !.thread = thread])
        BY <1>0, <3>1 DEF JobOK, Places
      <3> QED BY <3>1, <3>2
    <2>2. unsaved' \subseteq Threads
      BY <1>0, <1>5 DEF Refetch, JobOK, TypeOK
    <2>3. faults' \in 0..MaxFaults
      BY <1>5, FaultTyped DEF Refetch, TypeOK
    <2> QED BY <1>5, <2>1, <2>2, <2>3, JobsMove DEF Refetch, TypeOK, bufferVars, fateVars
  <1>6. CASE PostMessage(j) \/ PostFlat(j)
    <2>1. PICK as \in {"posted", "failed"}, thread \in Threads \cup {NoThread} : Settles(j, as, thread)
      BY <1>0, <1>6 DEF PostMessage, PostFlat
    <2>2. faults' \in 0..MaxFaults
      BY <1>6, FaultTyped DEF PostMessage, PostFlat, TypeOK
    <2>3. coming' = coming /\ UNCHANGED <<bufferVars, linked, threadVars>>
      BY <1>6, <2>1 DEF Settles, PostMessage, PostFlat
    <2>4. /\ \A i \in jobs' : JobOK(i)
          /\ fate' \in [Contents -> {"new", "held", "posted", "failed", "lost"}]
          /\ posted' \in [Contents -> Threads \cup {NoThread}]
      BY <2>1, SettlesTyped
    <2> QED BY <2>2, <2>3, <2>4 DEF TypeOK, bufferVars, threadVars
  <1> QED BY <1>1, <1>2, <1>3, <1>4, <1>5, <1>6

\* A buffer that gave its lines away.
LEMMA Emptied ==
    ASSUME TypeOK, \/ buf' = [buf EXCEPT !.timer = FALSE, !.lines = <<>>]
                   \/ buf' = [buf EXCEPT !.lines = <<>>]
    PROVE  /\ buf' \in [registered : BOOLEAN, lines : Seq(Lines), timer : BOOLEAN] /\ buf'.lines = <<>>
           /\ ~buf'.registered => buf' = NoBuffer
  <1>1. buf \in [registered : BOOLEAN, lines : Seq(Lines), timer : BOOLEAN] /\ (~buf.registered => buf = NoBuffer)
    BY DEF TypeOK
  <1>2. <<>> \in Seq(Lines)
    OBVIOUS
  <1>3. buf' \in [registered : BOOLEAN, lines : Seq(Lines), timer : BOOLEAN] /\ buf'.lines = <<>>
        /\ buf'.registered = buf.registered
    BY <1>1, <1>2
  <1>4. ASSUME ~buf.registered PROVE buf' = NoBuffer
    <2>1. buf = NoBuffer
      BY <1>1, <1>4
    <2> QED BY <2>1 DEF NoBuffer
  <1> QED BY <1>3, <1>4

\* Every step of the feed keeps the types.
LEMMA TypeInductive ==
    ASSUME TypeOK, [Next]_vars
    PROVE  TypeOK'
  <1> USE LinesType DEF Contents
  <1>1. ASSUME NEW n \in Lines, Line(n) PROVE TypeOK'
    <2>1. Append(buf.lines, n) \in Seq(Lines)
      BY DEF TypeOK
    <2>2. /\ buf' \in [registered : BOOLEAN, lines : Seq(Lines), timer : BOOLEAN]
          /\ buf'.registered
          /\ flushes' \in Nat /\ (buf'.timer \/ flushes' > 0)
      <3>1. flushes \in Nat
        BY DEF TypeOK
      <3>2. \/ /\ buf' = [registered |-> TRUE, lines |-> Append(buf.lines, n), timer |-> FALSE]
               /\ flushes' = flushes + 1
            \/ /\ buf' = [registered |-> TRUE, lines |-> Append(buf.lines, n), timer |-> TRUE]
               /\ flushes' = flushes
        BY <1>1 DEF Line
      <3> DEFINE lines == Append(buf.lines, n)
      <3>3. lines \in Seq(Lines)
        BY <2>1
      <3>4. \/ buf' = [registered |-> TRUE, lines |-> lines, timer |-> FALSE] /\ flushes' = flushes + 1
            \/ buf' = [registered |-> TRUE, lines |-> lines, timer |-> TRUE] /\ flushes' = flushes
        BY <3>2
      <3> HIDE DEF lines
      <3>5. buf'.registered /\ flushes' \in Nat /\ (buf'.timer \/ flushes' > 0)
        BY <3>1, <3>4
      <3>6. buf' \in [registered : BOOLEAN, lines : Seq(Lines), timer : BOOLEAN]
        <4>1. ASSUME NEW armed \in BOOLEAN
              PROVE  [registered |-> TRUE, lines |-> lines, timer |-> armed]
                        \in [registered : BOOLEAN, lines : Seq(Lines), timer : BOOLEAN]
          BY <3>3
        <4> QED BY <3>4, <4>1
      <3> QED BY <3>5, <3>6
    <2> QED BY <1>1, <2>2, ComesTyped DEF Line, TypeOK, threadVars
  <1>2. ASSUME NEW c \in Checks, Check(c) PROVE TypeOK'
    BY <1>2, ComesTyped DEF Check, TypeOK, threadVars
  <1>3. ASSUME NEW e \in Events \cup Replies, Notify(e) PROVE TypeOK'
    <2>1. JobOK(Job({e}, "coords", "pr"))
      BY JobStarts DEF Subjects
    <2> QED BY <1>3, <2>1, ComesTyped DEF Notify, TypeOK, threadVars, bufferVars
  <1>4. CASE DelayedFlush
    <2>1. buf' \in [registered : BOOLEAN, lines : Seq(Lines), timer : BOOLEAN] /\ buf'.lines = <<>>
          /\ (~buf'.registered => buf' = NoBuffer)
      BY <1>4, Emptied DEF DelayedFlush
    <2> QED BY <1>4, <2>1, DrainedTyped DEF DelayedFlush, TypeOK, threadVars, fateVars
  <1>5. CASE SizeFlush
    <2>1. buf' \in [registered : BOOLEAN, lines : Seq(Lines), timer : BOOLEAN] /\ buf'.lines = <<>>
          /\ (~buf'.registered => buf' = NoBuffer)
      BY <1>5, Emptied DEF SizeFlush
    <2>2. flushes' \in Nat
      BY <1>5 DEF SizeFlush, TypeOK
    <2> QED BY <1>5, <2>1, <2>2, DrainedTyped DEF SizeFlush, TypeOK, threadVars, fateVars
  <1>6. CASE EndFlush
    BY <1>6, DrainedTyped DEF EndFlush, TypeOK, threadVars, fateVars, NoBuffer
  <1>7. CASE CIFlush
    <2>1. JobOK(Job(batch, "coords", "pr"))
      BY <1>7, JobStarts DEF CIFlush, Subjects, TypeOK
    <2> QED BY <1>7, <2>1 DEF CIFlush, TypeOK, threadVars, fateVars
  <1>8. CASE Link
    BY <1>8 DEF Link, TypeOK, bufferVars, threadVars, fateVars
  <1>9. CASE Restart
    <2>1. fate' \in [Contents -> {"new", "held", "posted", "failed", "lost"}]
      BY <1>9 DEF Restart, TypeOK
    <2> QED BY <1>9, <2>1, FaultTyped DEF Restart, TypeOK, threadVars, NoBuffer
  <1>10. CASE UNCHANGED vars
    BY <1>10 DEF vars, TypeOK, bufferVars, threadVars, fateVars
  <1> QED BY <1>1, <1>2, <1>3, <1>4, <1>5, <1>6, <1>7, <1>8, <1>9, <1>10, PostsTyped DEF Next, Posts

-----------------------------------------------------------------------------
(* Threads and bindings *)

\* A thread that replies find their way back to, or whose binding went wrong.
Found(thread) == thread \in unsaved \/ \E s \in Subjects : binding[s] = thread

\* A post on its way has such a thread, and one that has saved its thread has
\* either bound it, found another bound, or failed to write it.
Rightful ==
    \A j \in jobs :
        /\ j.at = "post" => Found(j.thread)
        /\ j.at = "refetch" => j.thread \in unsaved \/ binding[j.subject] # NoThread

ConvInv == TypeOK /\ Rightful /\ Converges

\* A binding is never changed, and what was found stays found.
LEMMA BindingsStay ==
    ASSUME TypeOK, [Next]_vars
    PROVE  /\ \A s \in Subjects : binding[s] # NoThread => binding'[s] = binding[s]
           /\ unsaved \subseteq unsaved'
           /\ \A thread : thread # NoThread /\ Found(thread) => Found(thread)'
  <1>1. (\A s \in Subjects : binding[s] # NoThread => binding'[s] = binding[s]) /\ unsaved \subseteq unsaved'
    <2>1. CASE UNCHANGED <<binding, unsaved>>
      BY <2>1
    <2>2. ASSUME NEW j \in jobs, Save(j) \/ Refetch(j)
          PROVE  (\A s \in Subjects : binding[s] # NoThread => binding'[s] = binding[s]) /\ unsaved \subseteq unsaved'
      BY <2>2 DEF Save, Refetch, TypeOK
    <2>3. ASSUME NEW j \in jobs, Coords(j) \/ Lookup(j) \/ CreateThread(j) \/ PostMessage(j) \/ PostFlat(j)
          PROVE  UNCHANGED <<binding, unsaved>>
      BY <2>3 DEF Coords, Lookup, CreateThread, PostMessage, PostFlat, threadVars
    <2> QED BY <2>1, <2>2, <2>3
            DEF Next, Posts, Line, Check, Notify, DelayedFlush, SizeFlush, EndFlush, CIFlush, Link, Restart, vars, threadVars
  <1> QED BY <1>1 DEF Found

\* The coroutines of a step: those there were, the one that went on, or a new one.
LEMMA JobsStep ==
    ASSUME ConvInv, [Next]_vars, NEW k \in jobs', k \notin jobs
    PROVE  /\ k.at = "post" => Found(k.thread)'
           /\ k.at = "refetch" => k.thread \in unsaved' \/ binding'[k.subject] # NoThread
  <1> DEFINE Goal == /\ k.at = "post" => Found(k.thread)'
                     /\ k.at = "refetch" => k.thread \in unsaved' \/ binding'[k.subject] # NoThread
  <1>0. TypeOK /\ Rightful
    BY DEF ConvInv
  <1>1. ASSUME NEW what, NEW at \in {"coords", "lookup"}, NEW subject, k = Job(what, at, subject)
        PROVE  Goal
    BY <1>1 DEF Job
  <1>2. CASE \/ \E n \in Lines : Line(n)
             \/ \E c \in Checks : Check(c)
             \/ \E e \in Events \cup Replies : Notify(e)
             \/ DelayedFlush \/ SizeFlush \/ EndFlush \/ CIFlush \/ Link \/ Restart \/ UNCHANGED vars
    <2>1. CASE \E n \in Lines : Line(n)
      BY <2>1 DEF Line
    <2>2. CASE (\E c \in Checks : Check(c)) \/ Link \/ Restart \/ UNCHANGED vars
      BY <2>2 DEF Check, Link, Restart, vars
    <2>3. CASE \E e \in Events \cup Replies : Notify(e)
      <3>1. PICK e \in Events \cup Replies : k = Job({e}, "coords", "pr")
        BY <2>3 DEF Notify
      <3> QED BY <3>1, <1>1
    <2>4. CASE CIFlush
      <3>1. k = Job(batch, "coords", "pr")
        BY <2>4 DEF CIFlush
      <3> QED BY <3>1, <1>1
    <2>5. CASE DelayedFlush \/ SizeFlush \/ EndFlush
      <3>1. k = Job(Range(buf.lines), "lookup", "stream")
        BY <2>5 DEF DelayedFlush, SizeFlush, EndFlush, Drained
      <3> QED BY <3>1, <1>1
    <2> QED BY <1>2, <2>1, <2>2, <2>3, <2>4, <2>5
  <1>3. ASSUME NEW j \in jobs, Posts,
               Coords(j) \/ Lookup(j) \/ CreateThread(j) \/ Save(j) \/ Refetch(j) \/ PostMessage(j) \/ PostFlat(j)
        PROVE  Goal
    <2>0. JobOK(j) /\ binding \in [Subjects -> Threads \cup {NoThread}] /\ j.subject \in Subjects
      BY <1>0 DEF TypeOK, JobOK
    <2>1. CASE Coords(j)
      <3>1. \/ k = [j EXCEPT !.at = "lookup"]
            \/ k = [j EXCEPT !.at = "lookup", !.subject = IF linked THEN "issue" ELSE "pr"]
        BY <2>1 DEF Coords, Becomes
      <3>2. k.at = "lookup"
        BY <2>0, <3>1 DEF JobOK
      <3> QED BY <3>2
    <2>2. CASE Lookup(j)
      <3>1. CASE binding[j.subject] # NoThread /\ k = [j EXCEPT !.at = "post", !.thread = binding[j.subject]]
        <4>1. k.at = "post" /\ k.thread = binding[j.subject]
          BY <2>0, <3>1 DEF JobOK
        <4>2. Found(k.thread) /\ k.thread # NoThread
          BY <2>0, <3>1, <4>1 DEF Found
        <4> QED BY <1>0, <4>1, <4>2, BindingsStay
      <3>2. CASE k = [j EXCEPT !.at = IF j.what \subseteq Replies THEN "flat" ELSE "create"]
        BY <2>0, <3>2 DEF JobOK
      <3> QED BY <2>2, <3>1, <3>2 DEF Lookup, Becomes
    <2>3. CASE CreateThread(j)
      <3>1. \/ k = [j EXCEPT !.at = "save", !.thread = created']
            \/ k = [j EXCEPT !.at = "flat"]
        BY <2>3 DEF CreateThread, Becomes, Settles
      <3>2. k.at \in {"save", "flat"}
        BY <2>0, <3>1 DEF JobOK
      <3> QED BY <3>2
    <2>4. CASE Save(j)
      <3>1. k = [j EXCEPT !.at = "refetch"] /\ j.thread # NoThread
        BY <2>0, <2>4 DEF Save, Becomes, JobOK
      <3>2. k.at = "refetch" /\ k.thread = j.thread /\ k.subject = j.subject
        BY <2>0, <3>1 DEF JobOK
      <3>3. j.thread \in unsaved' \/ binding'[j.subject] # NoThread
        BY <2>0, <2>4, <3>1 DEF Save
      <3> QED BY <3>2, <3>3
    <2>5. CASE Refetch(j)
      <3>0. j.thread # NoThread /\ (j.thread \in unsaved \/ binding[j.subject] # NoThread)
        BY <1>0, <2>0, <2>5 DEF Refetch, Rightful, JobOK
      <3>1. CASE /\ k = [j EXCEPT !.at = "post", !.thread = IF binding[j.subject] # NoThread
                                                             THEN binding[j.subject] ELSE @]
                 /\ UNCHANGED unsaved
        <4>1. k.at = "post" /\ k.thread = IF binding[j.subject] # NoThread THEN binding[j.subject] ELSE j.thread
          BY <2>0, <3>1 DEF JobOK
        <4>2. Found(k.thread) /\ k.thread # NoThread
          BY <2>0, <3>0, <4>1 DEF Found
        <4> QED BY <1>0, <4>1, <4>2, BindingsStay
      <3>2. CASE k = [j EXCEPT !.at = "post"] /\ unsaved' = unsaved \cup {j.thread}
        <4>1. k.at = "post" /\ k.thread = j.thread
          BY <2>0, <3>2 DEF JobOK
        <4> QED BY <3>2, <4>1 DEF Found
      <3> QED BY <2>5, <3>1, <3>2 DEF Refetch, Becomes
    <2>6. CASE PostMessage(j) \/ PostFlat(j)
      BY <2>6 DEF PostMessage, PostFlat, Settles
    <2> QED BY <1>3, <2>1, <2>2, <2>3, <2>4, <2>5, <2>6
  <1> QED BY <1>2, <1>3 DEF Next, Posts

\* What is posted in a step is posted where its coroutine was to post it.
LEMMA PostedStep ==
    ASSUME ConvInv, [Next]_vars, NEW c \in Contents, posted'[c] # NoThread
    PROVE  Found(posted'[c])
  <1>0. TypeOK /\ Rightful /\ posted \in [Contents -> Threads \cup {NoThread}] /\ (posted[c] # NoThread => Found(posted[c]))
    BY DEF ConvInv, TypeOK, Converges, Found
  <1>1. CASE posted' = posted
    BY <1>0, <1>1
  <1>2. ASSUME NEW j \in jobs, CreateThread(j) \/ PostMessage(j) \/ PostFlat(j)
        PROVE  Found(posted'[c])
    BY <1>0, <1>2 DEF CreateThread, PostMessage, PostFlat, Settles, Rightful, fateVars
  <1>3. ASSUME NEW j \in jobs, Coords(j) \/ Lookup(j) \/ Save(j) \/ Refetch(j)
        PROVE  posted' = posted
    BY <1>3 DEF Coords, Lookup, Save, Refetch, fateVars
  <1> QED BY <1>1, <1>2, <1>3
          DEF Next, Posts, Line, Check, Notify, Comes, DelayedFlush, SizeFlush, EndFlush, CIFlush, Link, Restart, vars, fateVars

\* The types of the feed hold at first.
LEMMA InitType == Init => TypeOK
  <1>1. NoBuffer \in [registered : BOOLEAN, lines : Seq(Lines), timer : BOOLEAN] /\ NoBuffer.lines = <<>>
    <2>1. <<>> \in Seq(Lines)
      OBVIOUS
    <2> QED BY <2>1 DEF NoBuffer
  <1>2. NoThread \in Threads \cup {NoThread} /\ 0 \in 0..MaxFaults
    BY FaultsType
  <1>3. ASSUME NEW D PROVE [x \in D |-> NoThread] \in [D -> Threads \cup {NoThread}]
    BY <1>2
  <1>4. [c \in Contents |-> "new"] \in [Contents -> {"new", "held", "posted", "failed", "lost"}]
    OBVIOUS
  <1>5. ASSUME Init
        PROVE  binding \in [Subjects -> Threads \cup {NoThread}] /\ posted \in [Contents -> Threads \cup {NoThread}]
    <2>1. binding = [s \in Subjects |-> NoThread] /\ posted = [c \in Contents |-> NoThread]
      BY <1>5 DEF Init
    <2>2. binding \in [Subjects -> Threads \cup {NoThread}]
      BY <1>3, <2>1
    <2>3. posted \in [Contents -> Threads \cup {NoThread}]
      BY <1>3, <2>1
    <2> QED BY <2>2, <2>3
  <1>6. ASSUME Init PROVE /\ buf \in [registered : BOOLEAN, lines : Seq(Lines), timer : BOOLEAN]
                          /\ ~buf.registered => buf = NoBuffer
                          /\ buf.lines # <<>> => buf.timer \/ flushes > 0
    BY <1>1, <1>6 DEF Init
  <1>7. ASSUME Init PROVE /\ flushes \in Nat /\ batch \subseteq Checks /\ (\A j \in jobs : JobOK(j))
                          /\ linked \in BOOLEAN /\ created \in Nat /\ unsaved \subseteq Threads
                          /\ coming \in Cases /\ faults \in 0..MaxFaults
    BY <1>2, <1>7 DEF Init
  <1>8. ASSUME Init PROVE fate \in [Contents -> {"new", "held", "posted", "failed", "lost"}]
    BY <1>4, <1>8 DEF Init
  <1> QED BY <1>5, <1>6, <1>7, <1>8 DEF TypeOK

\* Every variable of the feed keeps its type: pending lines have a flush coming,
\* whichever of timer, full buffer and end of the task emptied the buffer before.
THEOREM FeedTypeCorrect == Spec => []TypeOK
  BY InitType, TypeInductive, PTL DEF Spec

\* However many callers look up, create, save and read back a thread at a time, a
\* message is posted in a thread that a binding names, unless the binding was not
\* written or not read back.
THEOREM CallersConverge == Spec => []Converges
  <1>1. Init => ConvInv
    BY InitType DEF Init, ConvInv, Rightful, Converges
  <1>2. ASSUME ConvInv, [Next]_vars PROVE ConvInv'
    <2>1. TypeOK'
      BY <1>2, TypeInductive DEF ConvInv
    <2>2. Rightful'
      <3>1. ASSUME NEW k \in jobs, k \in jobs'
            PROVE  /\ k.at = "post" => Found(k.thread)'
                   /\ k.at = "refetch" => k.thread \in unsaved' \/ binding'[k.subject] # NoThread
        BY <1>2, <3>1, BindingsStay DEF ConvInv, Rightful, TypeOK, JobOK
      <3> QED BY <1>2, <3>1, JobsStep DEF Rightful, Found
    <2>3. Converges'
      BY <1>2, PostedStep, BindingsStay DEF ConvInv, Converges, Found
    <2> QED BY <2>1, <2>2, <2>3 DEF ConvInv
  <1>3. ConvInv => Converges
    BY DEF ConvInv
  <1> QED BY <1>1, <1>2, <1>3, PTL DEF Spec

-----------------------------------------------------------------------------
(* What came in and has not settled *)

\* Where a content can be, and that it is there exactly while it is held.
Pending(c) == c \in Range(buf.lines)
Posting(c) == \E j \in jobs : c \in j.what

InPlace ==
    /\ \A c \in Contents : fate[c] = "held" <=> Pending(c) \/ c \in batch \/ Posting(c)
    /\ \A c \in Contents, j \in jobs : c \in j.what => ~Pending(c) /\ c \notin batch
    /\ \A c \in Contents : \A j, k \in jobs : c \in j.what /\ c \in k.what => j = k

HeldInv == TypeOK /\ InPlace

\* No content is a line and a check.
LEMMA Apart ==
    ASSUME TypeOK
    PROVE  \A c \in Contents : ~(Pending(c) /\ c \in batch)
  <1>1. Range(buf.lines) \subseteq Lines /\ batch \subseteq Checks
    BY RangeLines DEF TypeOK
  <1> QED BY <1>1, ContentsDistinct DEF Pending

\* What comes in goes to one place.
LEMMA ComesHeld ==
    ASSUME HeldInv, NEW n \in Contents, Comes(n),
           \/ /\ UNCHANGED <<batch, jobs>>
              /\ \A c \in Contents : Pending(c)' <=> Pending(c) \/ c = n
           \/ UNCHANGED <<buf, jobs>> /\ batch' = batch \cup {n}
           \/ /\ UNCHANGED <<buf, batch>>
              /\ \E at, subject : jobs' = jobs \cup {Job({n}, at, subject)}
    PROVE  InPlace'
  <1>0. /\ InPlace /\ fate \in [Contents -> {"new", "held", "posted", "failed", "lost"}] /\ fate[n] = "new"
        /\ \A c \in Contents : fate'[c] = "held" <=> fate[c] = "held" \/ c = n
    BY DEF HeldInv, TypeOK, Comes
  <1>1. ~Pending(n) /\ n \notin batch /\ ~Posting(n)
    BY <1>0 DEF InPlace
  <1>2. CASE UNCHANGED <<batch, jobs>> /\ \A c \in Contents : Pending(c)' <=> Pending(c) \/ c = n
    BY <1>0, <1>1, <1>2 DEF InPlace, Posting
  <1>3. CASE UNCHANGED <<buf, jobs>> /\ batch' = batch \cup {n}
    BY <1>0, <1>1, <1>3 DEF InPlace, Posting, Pending
  <1>4. CASE UNCHANGED <<buf, batch>> /\ \E at, subject : jobs' = jobs \cup {Job({n}, at, subject)}
    <2>1. PICK k : jobs' = jobs \cup {k} /\ k.what = {n}
      <3>1. PICK at, subject : jobs' = jobs \cup {Job({n}, at, subject)}
        BY <1>4
      <3>2. Job({n}, at, subject).what = {n}
        BY DEF Job
      <3> QED BY <3>1, <3>2
    <2>2. \A c \in Contents : Pending(c)' <=> Pending(c)
      BY <1>4 DEF Pending
    <2>3. \A c \in Contents : Posting(c)' <=> Posting(c) \/ c = n
      BY <2>1 DEF Posting
    <2>4. \A c \in Contents, j \in jobs' : c \in j.what => ~Pending(c)' /\ c \notin batch'
      BY <1>0, <1>1, <1>4, <2>1, <2>2 DEF InPlace
    <2>5. \A c \in Contents : \A i, j \in jobs' : c \in i.what /\ c \in j.what => i = j
      BY <1>0, <1>1, <2>1 DEF InPlace, Posting
    <2>6. \A c \in Contents : fate'[c] = "held" <=> Pending(c)' \/ c \in batch' \/ Posting(c)'
      BY <1>0, <1>4, <2>2, <2>3 DEF InPlace
    <2> QED BY <2>4, <2>5, <2>6 DEF InPlace
  <1> QED BY <1>2, <1>3, <1>4

\* What leaves a buffer or a batch goes on in one coroutine.
LEMMA MovesHeld ==
    ASSUME HeldInv, UNCHANGED fate, NEW k, NEW gone, jobs' = jobs \cup {k}, k.what = gone,
           \/ \A c \in Contents : /\ c \in gone <=> Pending(c)
                                  /\ ~Pending(c)' /\ (c \in batch' <=> c \in batch)
           \/ \A c \in Contents : /\ c \in gone <=> c \in batch
                                  /\ c \notin batch' /\ (Pending(c)' <=> Pending(c))
    PROVE  InPlace'
  <1>0. InPlace /\ \A c \in Contents : ~(Pending(c) /\ c \in batch)
    BY Apart DEF HeldInv
  <1>1. \A c \in Contents : Posting(c)' <=> Posting(c) \/ c \in gone
    BY DEF Posting
  <1>2. \A c \in Contents : c \in gone => ~Posting(c)
    BY <1>0 DEF InPlace, Posting
  <1>3. \A c \in Contents : fate'[c] = "held" <=> Pending(c)' \/ c \in batch' \/ Posting(c)'
    BY <1>0, <1>1 DEF InPlace
  <1>4. \A c \in Contents, j \in jobs' : c \in j.what => ~Pending(c)' /\ c \notin batch'
    BY <1>0 DEF InPlace
  <1>5. \A c \in Contents : \A i, j \in jobs' : c \in i.what /\ c \in j.what => i = j
    BY <1>0, <1>2 DEF InPlace, Posting
  <1> QED BY <1>3, <1>4, <1>5 DEF InPlace

\* A buffer that is drained moves its lines to a coroutine.
LEMMA DrainedHeld ==
    ASSUME HeldInv, UNCHANGED <<fate, batch>>, Drained(buf), buf'.lines = <<>>
    PROVE  InPlace'
  <1>0. buf.lines \in Seq(Lines) /\ (buf.lines = <<>> => Range(buf.lines) = {}) /\ \A c \in Contents : ~Pending(c)'
    BY RangeLines DEF HeldInv, TypeOK, Pending
  <1>1. CASE buf.lines = <<>>
    BY <1>0, <1>1 DEF Drained, HeldInv, InPlace, Pending, Posting
  <1>2. CASE buf.lines # <<>>
    <2>1. jobs' = jobs \cup {Job(Range(buf.lines), "lookup", "stream")}
      BY <1>2 DEF Drained
    <2>2. Job(Range(buf.lines), "lookup", "stream").what = Range(buf.lines)
      BY DEF Job
    <2> QED BY <1>0, <2>1, <2>2, MovesHeld DEF Pending
  <1> QED BY <1>1, <1>2

\* A coroutine takes what it carries along, and what settles is nowhere.
LEMMA BecomesHeld ==
    ASSUME HeldInv, UNCHANGED <<fate, buf, batch>>, NEW j \in jobs, NEW k, Becomes(j, k), k.what = j.what
    PROVE  InPlace'
  <1>0. InPlace /\ \A c \in Contents : Pending(c)' <=> Pending(c)
    BY DEF HeldInv, Pending
  <1>1. \A c \in Contents : Posting(c)' <=> Posting(c)
    BY DEF Posting, Becomes
  <1>2. \A c \in Contents : \A i, l \in jobs' : c \in i.what /\ c \in l.what => i = l
    BY <1>0 DEF InPlace, Becomes
  <1>3. \A c \in Contents, i \in jobs' : c \in i.what => ~Pending(c)' /\ c \notin batch'
    BY <1>0 DEF InPlace, Becomes
  <1> QED BY <1>0, <1>1, <1>2, <1>3 DEF InPlace

\* A coroutine that ends settles what it held.
LEMMA SettlesHeld ==
    ASSUME HeldInv, UNCHANGED <<buf, batch>>, NEW j \in jobs, NEW as \in {"posted", "failed"}, NEW thread,
           Settles(j, as, thread)
    PROVE  InPlace'
  <1>0. InPlace /\ (\A c \in Contents : Pending(c)' <=> Pending(c)) /\ jobs' = jobs \ {j}
        /\ \A c \in Contents : fate'[c] = IF c \in j.what THEN as ELSE fate[c]
    BY DEF HeldInv, Pending, Settles
  <1>1. \A c \in Contents : Posting(c)' <=> Posting(c) /\ c \notin j.what
    BY <1>0 DEF Posting, InPlace
  <1>2. \A c \in Contents : fate'[c] = "held" <=> Pending(c)' \/ c \in batch' \/ Posting(c)'
    BY <1>0, <1>1 DEF InPlace
  <1> QED BY <1>0, <1>1, <1>2 DEF InPlace

\* What a coroutine does with a thread keeps each content in one place.
LEMMA PostsHeld ==
    ASSUME HeldInv, NEW j \in jobs,
           Coords(j) \/ Lookup(j) \/ CreateThread(j) \/ Save(j) \/ Refetch(j) \/ PostMessage(j) \/ PostFlat(j)
    PROVE  InPlace'
  <1>0. /\ j.what \subseteq Contents /\ UNCHANGED <<buf, batch>>
        /\ \A at, subject, thread :
              /\ [j EXCEPT !.at = at].what = j.what
              /\ [j EXCEPT !.at = at, !.subject = subject].what = j.what
              /\ [j EXCEPT !.at = at, !.thread = thread].what = j.what
    BY DEF HeldInv, TypeOK, JobOK, Coords, Lookup, CreateThread, Save, Refetch, PostMessage, PostFlat, bufferVars
  <1>1. CASE Coords(j) \/ Lookup(j) \/ Save(j) \/ Refetch(j)
    <2>1. UNCHANGED fate
      BY <1>1 DEF Coords, Lookup, Save, Refetch, fateVars
    <2>2. PICK k : Becomes(j, k) /\ k.what = j.what
      <3>1. ASSUME NEW at, NEW subject, NEW thread,
                   \/ Becomes(j, [j EXCEPT !.at = at])
                   \/ Becomes(j, [j EXCEPT !.at = at, !.subject = subject])
                   \/ Becomes(j, [j EXCEPT !.at = at, !.thread = thread])
            PROVE  \E k : Becomes(j, k) /\ k.what = j.what
        <4> DEFINE k1 == [j EXCEPT !.at = at]
                   k2 == [j EXCEPT !.at = at, !.subject = subject]
                   k3 == [j EXCEPT !.at = at, !.thread = thread]
        <4>1. k1.what = j.what /\ k2.what = j.what /\ k3.what = j.what
          BY <1>0
        <4>2. Becomes(j, k1) \/ Becomes(j, k2) \/ Becomes(j, k3)
          BY <3>1
        <4> HIDE DEF k1, k2, k3
        <4> QED BY <4>1, <4>2
      <3>2. CASE Coords(j)
        BY <3>1, <3>2 DEF Coords
      <3>3. CASE Lookup(j)
        BY <3>1, <3>3 DEF Lookup
      <3>4. CASE Save(j)
        BY <3>1, <3>4 DEF Save
      <3>5. CASE Refetch(j)
        BY <3>1, <3>5 DEF Refetch
      <3> QED BY <1>1, <3>2, <3>3, <3>4, <3>5
    <2> QED BY <1>0, <2>1, <2>2, BecomesHeld
  <1>2. CASE CreateThread(j)
    <2>1. \/ Settles(j, "failed", NoThread)
          \/ UNCHANGED fate /\ \E k : Becomes(j, k) /\ k.what = j.what
      BY <1>0, <1>2 DEF CreateThread, fateVars
    <2> QED BY <1>0, <2>1, BecomesHeld, SettlesHeld
  <1>3. CASE PostMessage(j) \/ PostFlat(j)
    <2>1. \E as \in {"posted", "failed"} : \E thread : Settles(j, as, thread)
      BY <1>3 DEF PostMessage, PostFlat
    <2> QED BY <1>0, <2>1, SettlesHeld
  <1> QED BY <1>1, <1>2, <1>3

\* Every step of the feed keeps each content in one place.
LEMMA HeldInductive ==
    ASSUME HeldInv, [Next]_vars
    PROVE  HeldInv'
  <1>0. TypeOK /\ InPlace
    BY DEF HeldInv
  <1> SUFFICES InPlace'
    BY <1>0, TypeInductive DEF HeldInv
  <1>1. ASSUME NEW n \in Lines, Line(n) PROVE InPlace'
    <2>1. buf.lines \in Seq(Lines) /\ buf'.lines = Append(buf.lines, n)
      BY <1>0, <1>1 DEF Line, TypeOK
    <2>2. \A c \in Contents : Pending(c)' <=> Pending(c) \/ c = n
      BY <2>1, RangeAppend DEF Pending
    <2>3. n \in Contents /\ Comes(n) /\ UNCHANGED <<batch, jobs>>
      BY <1>1 DEF Line, Contents
    <2> QED BY <2>2, <2>3, ComesHeld
  <1>2. ASSUME NEW c \in Checks, Check(c) PROVE InPlace'
    BY <1>2, ComesHeld DEF Check, Contents
  <1>3. ASSUME NEW e \in Events \cup Replies, Notify(e) PROVE InPlace'
    BY <1>3, ComesHeld DEF Notify, Contents, bufferVars
  <1>4. CASE DelayedFlush \/ SizeFlush \/ EndFlush
    <2>1. buf'.lines = <<>>
      <3>1. CASE EndFlush
        BY <3>1 DEF EndFlush, NoBuffer
      <3>2. CASE DelayedFlush \/ SizeFlush
        BY <1>0, <3>2, Emptied DEF DelayedFlush, SizeFlush
      <3> QED BY <1>4, <3>1, <3>2
    <2>2. Drained(buf) /\ UNCHANGED <<fate, batch>>
      BY <1>4 DEF DelayedFlush, SizeFlush, EndFlush, fateVars
    <2> QED BY <2>1, <2>2, DrainedHeld
  <1>5. CASE CIFlush
    <2>1. jobs' = jobs \cup {Job(batch, "coords", "pr")} /\ UNCHANGED <<fate, buf>> /\ batch' = {}
      BY <1>5 DEF CIFlush, fateVars
    <2>2. Job(batch, "coords", "pr").what = batch
      BY DEF Job
    <2> QED BY <2>1, <2>2, MovesHeld DEF Pending
  <1>6. CASE Link \/ UNCHANGED vars
    BY <1>0, <1>6 DEF Link, vars, InPlace, Pending, Posting, bufferVars, fateVars
  <1>7. CASE Restart
    <2>1. \A c \in Contents : fate'[c] # "held"
      BY <1>7 DEF Restart
    <2>2. jobs' = {} /\ batch' = {} /\ Range(buf'.lines) = {}
      <3>1. Range(<<>>) = {}
        BY DEF Range
      <3> QED BY <1>7, <3>1 DEF Restart, NoBuffer
    <2> QED BY <2>1, <2>2 DEF InPlace, Pending, Posting
  <1> QED BY <1>1, <1>2, <1>3, <1>4, <1>5, <1>6, <1>7, PostsHeld DEF Next, Posts

\* A line, check or notification that came in and has not settled is in exactly one
\* of buffer, batch and coroutine, and one that has settled is in none: a timer, a
\* full buffer and the end of the task drain one buffer, and nothing is posted twice.
THEOREM HeldInOnePlace == Spec => []InOnePlace
  <1>1. Init => HeldInv
    <2>1. Range(<<>>) = {}
      BY DEF Range
    <2> QED BY <2>1, InitType DEF Init, HeldInv, InPlace, Pending, Posting, NoBuffer
  <1>2. HeldInv => InOnePlace
    <2> SUFFICES ASSUME HeldInv, NEW c \in Contents
                 PROVE  /\ (IF Pending(c) THEN 1 ELSE 0) + (IF c \in batch THEN 1 ELSE 0) + (IF Posting(c) THEN 1 ELSE 0)
                              = (IF fate[c] = "held" THEN 1 ELSE 0)
                        /\ \A j, k \in jobs : c \in j.what \cap k.what => j = k
      BY DEF InOnePlace, Pending, Posting
    <2>1. /\ fate[c] = "held" <=> Pending(c) \/ c \in batch \/ Posting(c)
          /\ Posting(c) => ~Pending(c) /\ c \notin batch
          /\ ~(Pending(c) /\ c \in batch)
      BY Apart DEF HeldInv, InPlace, Posting
    <2>2. \A j, k \in jobs : c \in j.what \cap k.what => j = k
      BY DEF HeldInv, InPlace
    <2> QED BY <2>1, <2>2
  <1> QED BY <1>1, <1>2, HeldInductive, PTL DEF Spec

-----------------------------------------------------------------------------
(* The Gateway client and the router: frames on the wire.                   *)

\* A frame that the connection carries.
LEMMA FrameArrives ==
    ASSUME NEW S, NEW w \in Seq(S), NEW f \in S
    PROVE  /\ Append(w, f) \in Seq(S)
           /\ Len(Append(w, f)) = Len(w) + 1 /\ Len(w) \in Nat
           /\ DOMAIN w = 1..Len(w) /\ DOMAIN Append(w, f) = 1..(Len(w) + 1)
           /\ \A i \in 1..Len(w) : Append(w, f)[i] = w[i]
           /\ Append(w, f)[Len(w) + 1] = f
OBVIOUS

\* A frame that is read.
LEMMA FrameRead ==
    ASSUME NEW S, NEW w \in Seq(S), w # <<>>
    PROVE  /\ Tail(w) \in Seq(S) /\ Head(w) \in S /\ Head(w) = w[1] /\ 1 \in 1..Len(w)
           /\ Len(Tail(w)) = Len(w) - 1 /\ Len(w) \in Nat /\ Len(w) > 0
           /\ DOMAIN w = 1..Len(w) /\ DOMAIN Tail(w) = 1..(Len(w) - 1)
           /\ \A i \in 1..(Len(w) - 1) : Tail(w)[i] = w[i+1] /\ i + 1 \in 1..Len(w)
OBVIOUS

\* A function on 1..n is a sequence.
LEMMA FunctionIsSeq ==
    ASSUME NEW S, NEW n \in Nat, NEW f \in [1..n -> S]
    PROVE  f \in Seq(S) /\ Len(f) = n
<1>1. f \in Seq(S)
  BY SeqDef
<1>2. DOMAIN f = 1..n
  OBVIOUS
<1> QED BY <1>1, <1>2, LenProperties

\* What a RESUME replays.
Replay == [i \in 1..(Len(stream) - seq) |-> Event(seq + i)]

\* The wire with a replay on it.
LEMMA Replayed ==
    ASSUME wire \in Seq(Frames), stream \in Seq(Messages), Len(stream) <= MaxPosts,
           seq \in Nat, seq <= Len(stream)
    PROVE  LET w == wire \o Replay \o <<Frame("resumed")>>
               n == Len(stream) - seq IN
           /\ w \in Seq(Frames) /\ Len(w) = Len(wire) + n + 1
           /\ \A i \in 1..Len(wire) : w[i] = wire[i]
           /\ \A i \in 1..n : w[Len(wire) + i] = Event(seq + i)
           /\ w[Len(wire) + n + 1] = Frame("resumed")
<1> DEFINE n == Len(stream) - seq
<1>1. n \in Nat /\ Len(stream) \in Nat
  OBVIOUS
<1>2. /\ Replay \in Seq(Frames) /\ Len(Replay) = n
      /\ \A i \in 1..n : Replay[i] = Event(seq + i)
  <2>1. \A i \in 1..n : Event(seq + i) \in Frames
    <3> SUFFICES ASSUME NEW i \in 1..n PROVE Event(seq + i) \in Frames
      OBVIOUS
    <3>1. seq + i \in 1..Len(stream) /\ seq + i \in 0..MaxPosts
      BY <1>1, PostsType
    <3>2. stream[seq + i] \in Messages
      BY <3>1
    <3> QED BY <3>1, <3>2 DEF Event, Frames, Ops
  <2>2. Replay \in [1..n -> Frames]
    BY <2>1 DEF Replay
  <2>3. \A i \in 1..n : Replay[i] = Event(seq + i)
    BY DEF Replay
  <2> HIDE DEF n
  <2> QED BY <1>1, <2>2, <2>3, FunctionIsSeq
<1>3. <<Frame("resumed")>> \in Seq(Frames) /\ Len(<<Frame("resumed")>>) = 1
  BY PostsType DEF Frame, Frames, Ops
<1> HIDE DEF n
<1>4. /\ wire \o Replay \in Seq(Frames) /\ Len(wire \o Replay) = Len(wire) + n
      /\ \A i \in 1..Len(wire) + n : (wire \o Replay)[i] = IF i <= Len(wire) THEN wire[i] ELSE Replay[i - Len(wire)]
  BY <1>1, <1>2, ConcatProperties
<1>5. Len(wire) \in Nat
  OBVIOUS
<1> DEFINE v == wire \o Replay
           w == v \o <<Frame("resumed")>>
<1> HIDE DEF v
<1>6. /\ w \in Seq(Frames) /\ Len(w) = Len(wire) + n + 1
      /\ \A i \in 1..Len(wire) + n + 1 : w[i] = IF i <= Len(v) THEN v[i] ELSE <<Frame("resumed")>>[i - Len(v)]
  <2>1. v \in Seq(Frames) /\ Len(v) = Len(wire) + n
    BY <1>4 DEF v
  <2> DEFINE last == <<Frame("resumed")>>
  <2>2. last \in Seq(Frames) /\ Len(last) = 1
    BY <1>3
  <2> HIDE DEF last
  <2>3. /\ v \o last \in Seq(Frames) /\ Len(v \o last) = Len(v) + Len(last)
        /\ \A i \in 1..Len(v) + Len(last) : (v \o last)[i] = IF i <= Len(v) THEN v[i] ELSE last[i - Len(v)]
    BY <2>1, <2>2, ConcatProperties
  <2> QED BY <1>1, <1>5, <2>1, <2>2, <2>3 DEF last
<1>7. \A i \in 1..Len(wire) : w[i] = wire[i]
  BY <1>1, <1>4, <1>5, <1>6 DEF v
<1>8. \A i \in 1..n : w[Len(wire) + i] = Event(seq + i)
  <2> SUFFICES ASSUME NEW i \in 1..n PROVE w[Len(wire) + i] = Event(seq + i)
    OBVIOUS
  <2>1. Len(wire) + i \in 1..Len(wire) + n /\ ~(Len(wire) + i <= Len(wire)) /\ (Len(wire) + i) - Len(wire) = i
    BY <1>1, <1>5
  <2>2. w[Len(wire) + i] = v[Len(wire) + i]
    BY <1>1, <1>4, <1>5, <1>6, <2>1 DEF v
  <2>3. v[Len(wire) + i] = Replay[i]
    BY <1>4, <2>1 DEF v
  <2> QED BY <1>2, <2>2, <2>3 DEF n
<1>9. w[Len(wire) + n + 1] = Frame("resumed")
  <2> HIDE DEF w
  <2>1. Len(wire) + n + 1 \in 1..Len(wire) + n + 1 /\ ~(Len(wire) + n + 1 <= Len(v)) /\ (Len(wire) + n + 1) - Len(v) = 1
    BY <1>1, <1>4, <1>5 DEF v
  <2>2. w[Len(wire) + n + 1] = <<Frame("resumed")>>[1]
    BY <1>6, <2>1
  <2> QED BY <2>2
<1> QED BY <1>6, <1>7, <1>8, <1>9 DEF n, v

-----------------------------------------------------------------------------
\* The frames on the wire that matter: events, a READY, and those that end a
\* session or ask for another RESUME.
Carried == {i \in DOMAIN wire : wire[i].op = "event"}
Heralds == {i \in DOMAIN wire : wire[i].op = "ready"}
Turning == {i \in DOMAIN wire : wire[i].op \in {"invalid", "retry"}}

\* The messages that were handed on, or are being; the session that the client
\* follows, or will when it has read its READY, and how far it has come in it.
Met == {n \in Messages : n \in Held \/ answer[n] # "none"}
Followed == sess = "live" \/ session = "fresh"
From == IF sess = "live" THEN seq ELSE 0

\* Events on the wire are newer than all that was handed on, and in order.
NewsInv ==
    /\ \A i, j \in Carried : i < j => wire[i].post < wire[j].post
    /\ \A i \in Carried : wire[i].post \in 1..sent /\ \A n \in Met : n < wire[i].post
    /\ \A i, j \in Heralds : i = j
    /\ Heralds # {} => session # "known"

\* After a refusal, of which there is one at a time, nothing is dispatched.
TurnInv == \A i \in Turning : ~attached /\ \A j \in Carried \cup Heralds \cup Turning : j <= i

\* Nothing is dispatched, and nothing refused, before a session is asked for.
LoopInv ==
    /\ loop \in {"hello", "resume", "identify", "cooling"} =>
          ~attached /\ Carried = {} /\ Heralds = {} /\ Turning = {}
    /\ loop \in {"backoff", "closing"} => conn = "closed"

\* What a session has beyond the client's sequence number was not handed on.
StreamInv ==
    /\ session = "none" => stream = <<>>
    /\ Len(stream) <= sent
    /\ \A n \in Met : n <= sent
    /\ \A k, l \in 1..Len(stream) : k < l => stream[k] < stream[l]
    /\ \A k \in 1..Len(stream) : stream[k] <= sent
    /\ Followed => \A k \in From + 1..Len(stream), n \in Met : n < stream[k]

\* The wire has events of the followed session without a gap, behind its READY
\* if that was not read, and all of them while the connection is attached.
LinkInv ==
    /\ Followed => \A i \in Carried :
          /\ wire[i].s \in From + 1..Len(stream) /\ wire[i].post = stream[wire[i].s]
          /\ \A k \in From + 1..wire[i].s - 1 : \E j \in Carried : j < i /\ wire[j].s = k
    /\ session = "fresh" => \A i \in Carried : \E h \in Heralds : h < i
    /\ attached =>
          /\ Followed
          /\ session = "fresh" => Heralds # {}
          /\ \A k \in From + 1..Len(stream) : \E j \in Carried : wire[j].s = k

BridgeInv == GatewayTypeOK /\ NewsInv /\ TurnInv /\ LoopInv /\ StreamInv /\ LinkInv

\* What goes wrong is counted within its bound.
LEMMA MishapTyped ==
    ASSUME mishaps \in 0..MaxMishaps, Mishap
    PROVE  mishaps' \in 0..MaxMishaps
BY BoundsType DEF Mishap

\* The types of the router, of the cache and of the answers are kept.
LEMMA RouterTypeStep ==
    ASSUME GatewayTypeOK, [GatewayNext]_gatewayVars
    PROVE  RouterTypeOK'
<1> USE DEF GatewayTypeOK, RouterTypeOK, Stages, RouterOnly, wiredVars, routerVars, Routed
<1>0. NoPost \notin Messages
  BY PostsType DEF NoPost, Messages
<1>a. ASSUME NEW place \in Stages \ {"idle"}, ~At("idle"), Goes(place)
      PROVE  /\ router' \in [at : Stages, post : Messages \cup {NoPost}]
             /\ (router'.post = NoPost <=> router'.at = "idle")
  BY <1>0, <1>a DEF Goes, At
<1>b. ASSUME NEW what \in Routed \cup {"ignored"}, ~At("idle"), Done(what)
      PROVE  /\ router' \in [at : Stages, post : Messages \cup {NoPost}]
             /\ (router'.post = NoPost <=> router'.at = "idle")
             /\ answer' \in [Messages -> Routed \cup {"none", "dropped", "ignored", "lost"}]
  BY <1>0, <1>b DEF Done, At, Idle
<1>1. CASE UNCHANGED <<wiredVars, routerVars>>
  BY <1>1
<1>2. CASE Bind
  BY <1>2 DEF Bind
<1>3. CASE CacheExpires
  BY <1>3 DEF CacheExpires
<1>4. CASE TaskMoves
  BY <1>4 DEF TaskMoves, Moves, TaskStates
<1>5. CASE Handle
  <2>1. current \in Messages
    BY <1>5, PostsType DEF Handle, ClientTypeOK
  <2>2. queue' \in Seq(Messages)
    <3>1. queue' = queue \/ queue' = Append(queue, current)
      BY <1>5 DEF Handle
    <3> QED BY <2>1, <3>1
  <2>3. cache' \in {"none", "yes", "no"}
    BY <1>5 DEF Handle, WiredLookup
  <2>4. answer' \in [Messages -> Routed \cup {"none", "dropped", "ignored", "lost"}]
    BY <1>5, <2>1 DEF Handle
  <2> QED BY <1>5, <2>2, <2>3, <2>4 DEF Handle
<1>6. CASE Take
  BY <1>0, <1>6 DEF Take, At
<1>7. CASE Route
  <2>1. ~At("idle") /\ UNCHANGED <<bound, cache, queue, state>>
    BY <1>7 DEF Route, At
  <2>2. ((Goes("read") \/ Goes("trigger")) /\ UNCHANGED answer) \/ Done("ignored")
    BY <1>7 DEF Route
  <2> QED BY <2>1, <2>2, <1>a, <1>b
<1>8. CASE ChooseTool
  <2>1. ~At("idle") /\ UNCHANGED <<bound, cache, queue, state, answer>>
    BY <1>8 DEF ChooseTool, At
  <2>2. Goes("redirect_task") \/ Goes("send_followup") \/ Goes("trigger")
    BY <1>8 DEF ChooseTool
  <2> QED BY <2>1, <2>2, <1>a
<1>9. CASE Redirect
  <2>1. ~At("idle") /\ UNCHANGED <<bound, cache, queue>> /\ state' \in TaskStates
    BY <1>9 DEF Redirect, At, TaskStates
  <2>2. (Goes("trigger") /\ UNCHANGED answer) \/ Done("swallowed") \/ Done("task")
    BY <1>9 DEF Redirect
  <2> QED BY <2>1, <2>2, <1>a, <1>b
<1>10. CASE SendFollowup
  <2>1. ~At("idle") /\ UNCHANGED <<bound, cache, queue>> /\ state' \in TaskStates
    BY <1>10 DEF SendFollowup, At, TaskStates
  <2>2. (Goes("trigger") /\ UNCHANGED answer) \/ Done("task")
    BY <1>10 DEF SendFollowup
  <2> QED BY <2>1, <2>2, <1>a, <1>b
<1>11. CASE Trigger
  <2>1. ~At("idle") /\ UNCHANGED <<bound, cache, queue, state>> /\ Done("foreman")
    BY <1>11 DEF Trigger, At
  <2> QED BY <2>1, <1>b
<1>12. CASE GatewayRestart
  BY <1>0, <1>12 DEF GatewayRestart, Idle
<1>13. Post \/ Lose \/ FallSilent \/ AskReconnect \/ Invalidate \/ Beat \/ HeartbeatCloses
         => UNCHANGED <<wiredVars, routerVars>>
  BY DEF Post, Lose, FallSilent, AskReconnect, Invalidate, Beat, HeartbeatCloses, Unacked
<1>14. Connect \/ Hello \/ Resume \/ Cool \/ CoolEnds \/ Identify \/ Notice \/ Close
         => UNCHANGED <<wiredVars, routerVars>>
  BY DEF Connect, Hello, Resume, Cool, CoolEnds, Identify, Notice, Close
<1>15. ReadEvent \/ ReadReady \/ ReadResumed \/ ReadAck \/ ReadReconnect \/ ReadInvalid \/ ReadRetry
         => UNCHANGED <<wiredVars, routerVars>>
  BY DEF ReadEvent, ReadReady, ReadResumed, ReadAck, ReadReconnect, ReadInvalid, ReadRetry
<1>16. UNCHANGED gatewayVars => UNCHANGED <<wiredVars, routerVars>>
  BY DEF gatewayVars
<1> QED
  BY <1>1, <1>2, <1>3, <1>4, <1>5, <1>6, <1>7, <1>8, <1>9, <1>10, <1>11, <1>12, <1>13, <1>14, <1>15, <1>16
  DEF GatewayNext, Discord, Client, Router

\* The types of Discord's session and of the connection are kept.
LEMMA DiscordTypeStep ==
    ASSUME GatewayTypeOK, StreamInv, [GatewayNext]_gatewayVars
    PROVE  DiscordTypeOK'
<1> USE DEF GatewayTypeOK, DiscordTypeOK, serverVars, lineVars
<1>0. /\ wire \in Seq(Frames) /\ stream \in Seq(Messages) /\ Len(stream) <= sent
      /\ sent \in 0..MaxPosts /\ MaxPosts \in Nat /\ <<>> \in Seq(Frames) /\ <<>> \in Seq(Messages)
  BY PostsType DEF StreamInv
<1>a. ASSUME NEW op \in Ops PROVE Append(wire, Frame(op)) \in Seq(Frames)
  <2>1. Frame(op) \in Frames
    BY <1>0 DEF Frame, Frames
  <2> QED BY <1>0, <2>1
<1>b. ASSUME NEW op, Arrives(op) PROVE wire' \in Seq(Frames)
  BY <1>0, <1>b, FrameRead DEF Arrives
<1>c. ASSUME NEW end, Cut(end) PROVE conn' = end /\ attached' = FALSE /\ wire' \in Seq(Frames)
  BY <1>0, <1>c DEF Cut
<1>1. CASE UNCHANGED <<serverVars, lineVars>>
  BY <1>1
<1>2. CASE Post
  <2>1. sent' \in Messages /\ sent' \in 0..MaxPosts /\ Len(stream) < MaxPosts
    BY <1>0, <1>2 DEF Post, Messages
  <2>2. stream' \in Seq(Messages) /\ Len(stream') \in 0..MaxPosts
    <3>1. Append(stream, sent') \in Seq(Messages) /\ Len(Append(stream, sent')) = Len(stream) + 1
      BY <1>0, <2>1
    <3> QED BY <1>0, <1>2, <2>1, <3>1 DEF Post
  <2>3. [op |-> "event", post |-> sent', s |-> Len(stream')] \in Frames
    BY <2>1, <2>2 DEF Frames, Ops
  <2>4. wire' \in Seq(Frames)
    BY <1>0, <1>2, <2>3 DEF Post
  <2> QED BY <1>2, <2>1, <2>2, <2>4 DEF Post
<1>3. CASE Lose \/ FallSilent
  BY <1>3, <1>c DEF Lose, FallSilent
<1>4. CASE HeartbeatCloses
  BY <1>4, <1>c DEF HeartbeatCloses, Unacked
<1>5. CASE AskReconnect
  BY <1>5, <1>a DEF AskReconnect, Ops
<1>6. CASE Invalidate
  <2>1. wire' \in Seq(Frames)
    BY <1>0, <1>6, <1>a DEF Invalidate, Ops
  <2> QED BY <1>0, <1>6, <2>1 DEF Invalidate
<1>7. CASE Connect
  <2>1. Frame("hello") \in Frames
    BY <1>0 DEF Frame, Frames, Ops
  <2> QED BY <1>7, <2>1 DEF Connect
<1>8. CASE Hello
  BY <1>8, <1>b DEF Hello
<1>9. CASE Resume
  <2>1. CASE sess = "live" /\ wire' = wire \o Replay \o <<Frame("resumed")>> /\ conn = "open" /\ attached'
             /\ UNCHANGED <<sent, stream, session, conn>>
    <3>1. seq \in Nat /\ seq <= Len(stream) /\ Len(stream) <= MaxPosts /\ session = "known"
      BY <1>0, <2>1 DEF ClientTypeOK, NoSeq
    <3> QED BY <1>0, <2>1, <3>1, Replayed
  <2>2. CASE UNCHANGED <<serverVars, conn>> /\ wire' \in {wire, Append(wire, Frame("retry")), Append(wire, Frame("invalid"))}
    BY <1>a, <2>2 DEF Ops
  <2> QED BY <1>9, <2>1, <2>2 DEF Resume, Replay, Unsent
<1>10. CASE Identify
  <2>1. CASE UNCHANGED <<serverVars, conn>> /\ wire' \in {wire, Append(wire, Frame("invalid"))}
    BY <1>a, <2>1 DEF Ops
  <2>2. CASE conn = "open" /\ session' = "fresh" /\ stream' = <<>> /\ attached' = TRUE
             /\ wire' = Append(wire, Frame("ready")) /\ UNCHANGED <<sent, conn>>
    BY <1>0, <1>a, <2>2 DEF Ops
  <2> QED BY <1>10, <2>1, <2>2 DEF Identify, Unsent
<1>11. CASE ReadEvent \/ ReadResumed \/ ReadAck \/ ReadInvalid \/ ReadRetry
  <2>1. wire' \in Seq(Frames)
    BY <1>11, <1>b DEF ReadEvent, ReadResumed, ReadAck, ReadInvalid, ReadRetry, Read
  <2> QED BY <1>11, <2>1 DEF ReadEvent, ReadResumed, ReadAck, ReadInvalid, ReadRetry
<1>12. CASE ReadReady
  <2>1. wire' \in Seq(Frames)
    BY <1>12, <1>b DEF ReadReady, Read
  <2> QED BY <1>12, <2>1 DEF ReadReady
<1>13. CASE ReadReconnect
  <2>1. wire' \in Seq(Frames)
    BY <1>13, <1>b DEF ReadReconnect, Read
  <2> QED BY <1>0, <1>13, <2>1 DEF ReadReconnect
<1>14. CASE Beat
  <2>1. wire' \in Seq(Frames)
    BY <1>0, <1>14, <1>a DEF Beat, Ops
  <2> QED BY <1>14, <2>1 DEF Beat
<1>15. CASE GatewayRestart
  BY <1>0, <1>15 DEF GatewayRestart
<1>16. Bind \/ CacheExpires \/ TaskMoves \/ Cool \/ CoolEnds \/ Notice \/ Close \/ Handle \/ Router
         \/ UNCHANGED gatewayVars => UNCHANGED <<serverVars, lineVars>>
  BY DEF Bind, CacheExpires, TaskMoves, Cool, CoolEnds, Notice, Close, Handle, Router, RouterOnly,
         Take, Route, ChooseTool, Redirect, SendFollowup, Trigger, gatewayVars
<1> QED
  BY <1>1, <1>2, <1>3, <1>4, <1>5, <1>6, <1>7, <1>8, <1>9, <1>10, <1>11, <1>12, <1>13, <1>14, <1>15, <1>16
  DEF GatewayNext, Discord, Client

\* What the first frame says, if it is a message.
LEMMA FirstEvent ==
    ASSUME GatewayTypeOK, StreamInv, NewsInv, LinkInv, Read("event")
    PROVE  /\ Head(wire) = wire[1] /\ 1 \in Carried /\ 1 \in DOMAIN wire
           /\ wire[1].post \in Messages /\ wire[1].s \in 0..MaxPosts
           /\ Followed => /\ sess = "live" /\ wire[1].s = seq + 1 /\ seq + 1 \in 1..Len(stream)
                          /\ wire[1].post = stream[seq + 1]
<1>1. /\ wire # <<>> /\ wire \in Seq(Frames) /\ sent \in 0..MaxPosts /\ MaxPosts \in Nat /\ seq \in Nat
  BY PostsType DEF Read, Arrives, GatewayTypeOK, DiscordTypeOK, ClientTypeOK, NoSeq
<1>2. /\ Head(wire) \in Frames /\ Head(wire) = wire[1] /\ 1 \in 1..Len(wire)
      /\ DOMAIN wire = 1..Len(wire) /\ Len(wire) \in Nat
  BY <1>1, FrameRead
<1>3. 1 \in Carried
  BY <1>2 DEF Carried, Read, Arrives
<1>4. wire[1].post \in 1..sent
  BY <1>2, <1>3 DEF NewsInv
<1>5. wire[1].post \in Messages /\ wire[1].s \in 0..MaxPosts
  BY <1>1, <1>2, <1>4 DEF Messages, Frames
<1>6. ASSUME Followed
      PROVE  /\ sess = "live" /\ wire[1].s = seq + 1 /\ seq + 1 \in 1..Len(stream)
             /\ wire[1].post = stream[seq + 1]
  <2>1. sess = "live"
    <3>1. session # "fresh"
      BY <1>2, <1>3 DEF LinkInv, Heralds
    <3> QED BY <1>6, <3>1 DEF Followed
  <2>2. /\ wire[1].s \in seq + 1..Len(stream) /\ wire[1].post = stream[wire[1].s]
        /\ \A k \in seq + 1..wire[1].s - 1 : \E j \in Carried : j < 1 /\ wire[j].s = k
    BY <1>2, <1>3, <1>6, <2>1 DEF LinkInv, From
  <2>3. ~ (seq + 1 \in seq + 1..wire[1].s - 1)
    BY <1>2, <2>2 DEF Carried
  <2>4. wire[1].s = seq + 1
    BY <1>1, <1>5, <2>2, <2>3
  <2> QED BY <1>1, <2>1, <2>2, <2>4
<1> QED BY <1>2, <1>3, <1>5, <1>6

\* The types of the client are kept: a session it can resume is Discord's, at a
\* place in its stream.
LEMMA ClientTypeStep ==
    ASSUME GatewayTypeOK, StreamInv, NewsInv, LinkInv, [GatewayNext]_gatewayVars
    PROVE  ClientTypeOK'
<1> USE DEF GatewayTypeOK, ClientTypeOK, clientVars, sessionVars, beatVars
<1>0. /\ NoPost \notin Messages /\ MaxPosts \in Nat /\ NoSeq = MaxPosts + 1 /\ MaxIdentifies \in Nat
      /\ Len(stream) \in Nat
  BY PostsType, BoundsType DEF NoPost, Messages, NoSeq, DiscordTypeOK
<1>1. CASE UNCHANGED <<clientVars, session, stream>>
  BY <1>1
<1>2. CASE Post
  <2>1. stream' = stream \/ Len(stream') = Len(stream) + 1
    BY <1>2 DEF Post, DiscordTypeOK, Messages
  <2>2. seq \in Nat
    BY <1>0
  <2> QED BY <1>0, <1>2, <2>1, <2>2 DEF Post
<1>3. CASE Invalidate
  BY <1>3 DEF Invalidate, Gone
<1>4. CASE Connect
  BY <1>4 DEF Connect, serverVars
<1>5. CASE Hello
  BY <1>5 DEF Hello, serverVars
<1>6. CASE Resume
  <2>1. loop = "resume" /\ loop' \in {"closing", "reading"} /\ UNCHANGED <<session, stream, sessionVars, beatVars, identifies, current>>
    BY <1>6 DEF Resume, Unsent, serverVars
  <2> QED BY <2>1
<1>7. CASE Cool \/ CoolEnds
  BY <1>0, <1>7 DEF Cool, CoolEnds, serverVars
<1>8. CASE Identify
  <2>1. /\ loop = "identify" /\ loop' \in {"closing", "reading"} /\ UNCHANGED <<seq, healthy, beatVars, current>>
        /\ identifies < MaxIdentifies /\ identifies' = identifies + 1
    BY <1>8 DEF Identify, Unsent
  <2>2. UNCHANGED <<session, stream, sess>> \/ sess' \in {"none", "gone"}
    BY <1>8 DEF Identify, Unsent, serverVars, Gone
  <2> QED BY <1>0, <2>1, <2>2
<1>9. CASE Notice \/ Close
  <2>1. CASE Notice
    BY <2>1 DEF Notice, serverVars
  <2>2. CASE Close
    <3>1. /\ loop = "closing" /\ loop' = "backoff" /\ beat' = FALSE
          /\ UNCHANGED <<session, stream, sess, seq, healthy, acked, current>>
          /\ identifies' = identifies \/ identifies' = 0
      BY <2>2 DEF Close, serverVars
    <3>2. identifies' \in 0..MaxIdentifies
      BY <1>0, <3>1
    <3>3. healthy' \in BOOLEAN /\ acked' \in BOOLEAN /\ beat' \in BOOLEAN
      BY <3>1
    <3> QED BY <3>1, <3>2, <3>3
  <2> QED BY <1>9, <2>1, <2>2
<1>10. CASE ReadEvent
  <2>1. /\ seq' = wire[1].s /\ seq' \in 0..MaxPosts /\ current' = wire[1].post /\ current' \in Messages
        /\ sess = "live" => seq' <= Len(stream)
    BY <1>0, <1>10, FirstEvent DEF ReadEvent, Followed
  <2> QED BY <1>0, <1>10, <2>1 DEF ReadEvent, serverVars, Read
<1>11. CASE ReadReady
  BY <1>0, <1>11 DEF ReadReady, Read
<1>12. CASE ReadResumed \/ ReadAck
  <2>1. /\ loop = "reading" /\ UNCHANGED <<session, stream, loop, sess, seq, identifies, current>>
        /\ healthy' \in BOOLEAN /\ acked' \in BOOLEAN /\ UNCHANGED beat
    BY <1>12 DEF ReadResumed, ReadAck, serverVars, Read
  <2> QED BY <2>1
<1>13. CASE ReadReconnect
  BY <1>13 DEF ReadReconnect, Gone
<1>14. CASE ReadInvalid
  BY <1>0, <1>14 DEF ReadInvalid, serverVars, Read
<1>15. CASE ReadRetry
  BY <1>15 DEF ReadRetry, serverVars, Read
<1>16. CASE Handle
  BY <1>0, <1>16 DEF Handle, serverVars
<1>17. CASE Beat
  BY <1>17 DEF Beat, serverVars
<1>18. CASE HeartbeatCloses
  BY <1>18 DEF HeartbeatCloses, Unacked
<1>19. CASE GatewayRestart
  <2>1. /\ loop' = "backoff" /\ sess' = "none" /\ seq' = NoSeq /\ healthy' = FALSE
        /\ acked' = TRUE /\ beat' = FALSE /\ identifies' = 0 /\ current' = NoPost
    BY <1>19 DEF GatewayRestart
  <2>2. identifies' \in 0..MaxIdentifies /\ seq' \in 0..NoSeq /\ current' \in Messages \cup {NoPost}
    BY <1>0, <2>1
  <2>3. healthy' \in BOOLEAN /\ acked' \in BOOLEAN /\ beat' \in BOOLEAN
    BY <2>1
  <2> QED BY <2>1, <2>2, <2>3
<1>20. Bind \/ CacheExpires \/ TaskMoves \/ Lose \/ FallSilent \/ AskReconnect \/ Router
         \/ UNCHANGED gatewayVars => UNCHANGED <<clientVars, session, stream>>
  BY DEF Bind, CacheExpires, TaskMoves, Lose, FallSilent, AskReconnect, Router, RouterOnly,
         Take, Route, ChooseTool, Redirect, SendFollowup, Trigger, gatewayVars, serverVars
<1> QED
  BY <1>1, <1>2, <1>3, <1>4, <1>5, <1>6, <1>7, <1>8, <1>9, <1>10, <1>11, <1>12, <1>13, <1>14, <1>15, <1>16,
     <1>17, <1>18, <1>19, <1>20
  DEF GatewayNext, Discord, Client

-----------------------------------------------------------------------------
(* How a step moves what is on the wire.                                   *)

\* The news stays, by d places nearer to the client; a new turn comes last.
NewsMoves(d) ==
    /\ \A i \in Carried' : i + d \in Carried /\ wire'[i] = wire[i + d]
    /\ \A i \in Carried : i - d \in Carried' /\ wire'[i - d] = wire[i]
    /\ \A i \in Heralds' : i + d \in Heralds
    /\ \/ \A i \in Turning' : i + d \in Turning
       \/ /\ ~attached'
          /\ \A i \in Turning', j \in Carried' \cup Heralds' \cup Turning' : j <= i

\* A READY that is waited for stays; one whose session is known is read.
HeraldsMove(d) ==
    /\ Heralds' # {} => session' # "known"
    /\ session' = "fresh" => session = "fresh" /\ \A i \in Heralds : i - d \in Heralds'

\* Places on the wire are numbers.
LEMMA Positions ==
    ASSUME GatewayTypeOK
    PROVE  /\ DOMAIN wire = 1..Len(wire) /\ Len(wire) \in Nat
           /\ Carried \subseteq Nat /\ Heralds \subseteq Nat /\ Turning \subseteq Nat
<1>1. DOMAIN wire = 1..Len(wire) /\ Len(wire) \in Nat
  BY DEF GatewayTypeOK, DiscordTypeOK
<1> QED BY <1>1 DEF Carried, Heralds, Turning

\* What is on the wire stays.
LEMMA SameMoves ==
    ASSUME GatewayTypeOK, NewsInv, wire' = wire, session' \in {session, "none"}
    PROVE  NewsMoves(0) /\ HeraldsMove(0)
<1>1. Carried' = Carried /\ Heralds' = Heralds /\ Turning' = Turning
  BY DEF Carried, Heralds, Turning
<1>2. \A i \in Nat : i + 0 = i /\ i - 0 = i
  OBVIOUS
<1>3. Carried \subseteq Nat /\ Heralds \subseteq Nat /\ Turning \subseteq Nat
  BY Positions
<1>4. NewsMoves(0)
  BY <1>1, <1>2, <1>3 DEF NewsMoves
<1>5. HeraldsMove(0)
  BY <1>1, <1>2, <1>3 DEF HeraldsMove, NewsInv
<1> QED BY <1>4, <1>5

\* Discord sends a frame that is no event and no READY.
LEMMA AppendMoves ==
    ASSUME GatewayTypeOK, NewsInv, session' \in {session, "none"},
           NEW op \in Ops \ {"event", "ready"}, wire' = Append(wire, Frame(op)),
           op \in {"invalid", "retry"} => ~attached' /\ Turning = {}
    PROVE  NewsMoves(0) /\ HeraldsMove(0) /\ Carried' = Carried /\ Heralds' = Heralds
<1>1. wire \in Seq(Frames)
  BY DEF GatewayTypeOK, DiscordTypeOK
<1>2. Frame(op) \in Frames /\ Frame(op).op = op
  BY PostsType DEF Frame, Frames
<1>3. /\ DOMAIN wire = 1..Len(wire) /\ DOMAIN wire' = 1..(Len(wire) + 1) /\ Len(wire) \in Nat
      /\ \A i \in 1..Len(wire) : wire'[i] = wire[i]
      /\ wire'[Len(wire) + 1].op = op
  BY <1>1, <1>2, FrameArrives
<1>4. Carried' = Carried /\ Heralds' = Heralds
  BY <1>3 DEF Carried, Heralds
<1>5. \/ Turning' = Turning
      \/ ~attached' /\ Turning' = {Len(wire) + 1}
  BY <1>3 DEF Turning
<1>6. \A i \in Carried \cup Heralds : i \in 1..Len(wire) /\ wire'[i] = wire[i] /\ i <= Len(wire) + 1
  BY <1>3 DEF Carried, Heralds
<1>7. Carried \subseteq Nat /\ Heralds \subseteq Nat /\ Turning \subseteq Nat
  BY Positions
<1>8. \A i \in Nat : i + 0 = i /\ i - 0 = i
  OBVIOUS
<1>9. /\ \A i \in Carried' : i + 0 \in Carried /\ wire'[i] = wire[i + 0]
      /\ \A i \in Carried : i - 0 \in Carried' /\ wire'[i - 0] = wire[i]
      /\ \A i \in Heralds' : i + 0 \in Heralds
  BY <1>4, <1>6, <1>7, <1>8
<1>10. \/ \A i \in Turning' : i + 0 \in Turning
       \/ /\ ~attached'
          /\ \A i \in Turning', j \in Carried' \cup Heralds' \cup Turning' : j <= i
  <2>1. CASE Turning' = Turning
    BY <1>7, <1>8, <2>1
  <2>2. CASE ~attached' /\ Turning' = {Len(wire) + 1}
    <3>1. \A i \in Turning', j \in Carried' \cup Heralds' \cup Turning' : i = Len(wire) + 1 /\ j <= Len(wire) + 1
      BY <1>3, <1>4, <1>6, <2>2
    <3> QED BY <2>2, <3>1
  <2> QED BY <1>5, <2>1, <2>2
<1>11. HeraldsMove(0)
  BY <1>4, <1>7, <1>8 DEF HeraldsMove, NewsInv
<1> QED BY <1>4, <1>9, <1>10, <1>11 DEF NewsMoves

\* A frame that is read and no event.
LEMMA TailMoves ==
    ASSUME GatewayTypeOK, NewsInv, NEW op \in Ops \ {"event"}, Arrives(op)
    PROVE  /\ NewsMoves(1) /\ 1 \in DOMAIN wire /\ wire[1].op = op
           /\ \A i \in Heralds \ {1} : i - 1 \in Heralds'
           /\ op # "ready" /\ session' \in {session, "none"} => HeraldsMove(1)
<1>1. wire \in Seq(Frames) /\ wire # <<>> /\ wire' = Tail(wire) /\ Head(wire).op = op
  BY DEF GatewayTypeOK, DiscordTypeOK, Arrives
<1>2. /\ DOMAIN wire = 1..Len(wire) /\ DOMAIN wire' = 1..(Len(wire) - 1) /\ Len(wire) \in Nat
      /\ \A i \in 1..(Len(wire) - 1) : wire'[i] = wire[i+1] /\ i + 1 \in 1..Len(wire)
      /\ wire[1].op = op /\ 1 \in DOMAIN wire
  BY <1>1, FrameRead
<1>3. \A i \in DOMAIN wire \ {1} : i - 1 \in DOMAIN wire' /\ wire'[i-1] = wire[i]
  <2> SUFFICES ASSUME NEW i \in DOMAIN wire \ {1} PROVE i - 1 \in DOMAIN wire' /\ wire'[i-1] = wire[i]
    OBVIOUS
  <2>1. i - 1 \in 1..(Len(wire) - 1) /\ (i - 1) + 1 = i
    BY <1>2
  <2> QED BY <1>2, <2>1
<1>4. 1 \notin Carried /\ (op # "ready" => 1 \notin Heralds)
  BY <1>2 DEF Carried, Heralds
<1>5. \A i \in DOMAIN wire' : i + 1 \in DOMAIN wire /\ wire'[i] = wire[i+1]
  BY <1>2
<1>6. \A i \in Heralds \ {1} : i - 1 \in Heralds'
  BY <1>3 DEF Heralds
<1>7. NewsMoves(1)
  BY <1>3, <1>4, <1>5 DEF NewsMoves, Carried, Heralds, Turning
<1>8. op # "ready" /\ session' \in {session, "none"} => HeraldsMove(1)
  BY <1>4, <1>6, <1>7 DEF HeraldsMove, NewsInv, NewsMoves
<1> QED BY <1>2, <1>6, <1>7, <1>8

\* The session the client follows stays, or there is none any more.
SessionKept ==
    /\ Followed' => Followed /\ From' = From /\ stream' = stream
    /\ stream' \in {stream, <<>>} /\ (session' = "none" => stream' = <<>>)

\* The connection has nothing on it any more.
LEMMA LostStep ==
    ASSUME BridgeInv, Carried' = {}, Heralds' = {}, Turning' = {}, ~attached', Met' = Met, sent' = sent, SessionKept
    PROVE  NewsInv' /\ TurnInv' /\ StreamInv' /\ LinkInv'
<1>1. NewsInv' /\ TurnInv' /\ LinkInv'
  BY DEF NewsInv, TurnInv, LinkInv
<1>2. sent \in Nat
  BY PostsType DEF BridgeInv, GatewayTypeOK, DiscordTypeOK
<1>3. StreamInv'
  BY <1>2 DEF BridgeInv, StreamInv, SessionKept
<1> QED BY <1>1, <1>3

\* What is on the connection stays in order, one frame of it read perhaps.
LEMMA KeptStep ==
    ASSUME BridgeInv, GatewayTypeOK', NEW d \in {0, 1}, NewsMoves(d), HeraldsMove(d),
           Met' = Met, sent' = sent, SessionKept, attached' => attached /\ Followed'
    PROVE  NewsInv' /\ TurnInv' /\ StreamInv' /\ LinkInv'
<1>0. /\ sent \in Nat /\ Carried \subseteq Nat /\ Heralds \subseteq Nat /\ Turning \subseteq Nat
      /\ Carried' \subseteq Nat /\ Heralds' \subseteq Nat /\ Turning' \subseteq Nat
  <2>1. Carried' \subseteq Nat /\ Heralds' \subseteq Nat /\ Turning' \subseteq Nat
    <3>1. wire' \in Seq(Frames)
      BY DEF GatewayTypeOK, DiscordTypeOK
    <3>2. DOMAIN wire' \subseteq Nat
      BY <3>1
    <3> QED BY <3>2 DEF Carried, Heralds, Turning
  <2> QED BY <2>1, PostsType, Positions DEF BridgeInv, GatewayTypeOK, DiscordTypeOK
<1>a. /\ \A i \in Carried' : i + d \in Carried /\ wire'[i] = wire[i + d]
      /\ \A i \in Carried : i - d \in Carried' /\ wire'[i - d] = wire[i]
      /\ \A i \in Heralds' : i + d \in Heralds
      /\ Heralds' # {} => session' # "known"
      /\ session' = "fresh" => session = "fresh" /\ \A i \in Heralds : i - d \in Heralds'
  BY DEF NewsMoves, HeraldsMove
<1>b. \A i, j \in Nat : (i < j <=> i + d < j + d) /\ (i <= j <=> i + d <= j + d)
  OBVIOUS
<1>1. NewsInv'
  <2>1. \A i, j \in Carried' : i < j => wire'[i].post < wire'[j].post
    <3> SUFFICES ASSUME NEW i \in Carried', NEW j \in Carried', i < j PROVE wire'[i].post < wire'[j].post
      OBVIOUS
    <3>1. i + d \in Carried /\ j + d \in Carried /\ i + d < j + d
      BY <1>0, <1>a, <1>b
    <3>2. wire[i + d].post < wire[j + d].post
      BY <3>1 DEF BridgeInv, NewsInv
    <3> QED BY <1>a, <3>2
  <2>2. \A i \in Carried' : wire'[i].post \in 1..sent' /\ \A n \in Met' : n < wire'[i].post
    <3> SUFFICES ASSUME NEW i \in Carried' PROVE wire'[i].post \in 1..sent' /\ \A n \in Met' : n < wire'[i].post
      OBVIOUS
    <3>1. i + d \in Carried /\ wire'[i] = wire[i + d]
      BY <1>a
    <3>2. wire[i + d].post \in 1..sent /\ \A n \in Met : n < wire[i + d].post
      BY <3>1 DEF BridgeInv, NewsInv
    <3> QED BY <3>1, <3>2
  <2>3. \A i, j \in Heralds' : i = j
    <3> SUFFICES ASSUME NEW i \in Heralds', NEW j \in Heralds' PROVE i = j
      OBVIOUS
    <3>1. i + d = j + d
      BY <1>a DEF BridgeInv, NewsInv
    <3> QED BY <1>0, <3>1
  <2>4. Heralds' # {} => session' # "known"
    BY <1>a
  <2> QED BY <2>1, <2>2, <2>3, <2>4 DEF NewsInv
<1>2. TurnInv'
  <2>1. CASE \A i \in Turning' : i + d \in Turning
    <3> SUFFICES ASSUME NEW i \in Turning'
                 PROVE  ~attached' /\ \A j \in Carried' \cup Heralds' \cup Turning' : j <= i
      BY DEF TurnInv
    <3>1. ~attached /\ \A j \in Carried \cup Heralds \cup Turning : j <= i + d
      BY <2>1 DEF BridgeInv, TurnInv
    <3>2. \A j \in Carried' \cup Heralds' \cup Turning' : j + d \in Carried \cup Heralds \cup Turning
      BY <1>a, <2>1
    <3>3. \A j \in Carried' \cup Heralds' \cup Turning' : j + d <= i + d
      BY <3>1, <3>2
    <3> QED BY <1>0, <1>b, <3>1, <3>3
  <2>2. CASE /\ ~attached'
             /\ \A i \in Turning', j \in Carried' \cup Heralds' \cup Turning' : j <= i
    BY <2>2 DEF TurnInv
  <2> QED BY <2>1, <2>2 DEF NewsMoves
<1>3. StreamInv'
  BY <1>0 DEF BridgeInv, StreamInv, SessionKept
<1>4. LinkInv'
  <2>1. ASSUME Followed'
        PROVE  \A i \in Carried' :
          /\ wire'[i].s \in From' + 1..Len(stream') /\ wire'[i].post = stream'[wire'[i].s]
          /\ \A k \in From' + 1..wire'[i].s - 1 : \E j \in Carried' : j < i /\ wire'[j].s = k
    <3> SUFFICES ASSUME NEW i \in Carried'
          PROVE /\ wire'[i].s \in From' + 1..Len(stream') /\ wire'[i].post = stream'[wire'[i].s]
                /\ \A k \in From' + 1..wire'[i].s - 1 : \E j \in Carried' : j < i /\ wire'[j].s = k
      OBVIOUS
    <3>1. Followed /\ From' = From /\ stream' = stream
      BY <2>1 DEF SessionKept
    <3>2. i + d \in Carried /\ wire'[i] = wire[i + d]
      BY <1>a
    <3>3. /\ wire[i + d].s \in From + 1..Len(stream) /\ wire[i + d].post = stream[wire[i + d].s]
          /\ \A k \in From + 1..wire[i + d].s - 1 : \E j \in Carried : j < i + d /\ wire[j].s = k
      BY <3>1, <3>2 DEF BridgeInv, LinkInv
    <3>4. ASSUME NEW k \in From + 1..wire[i + d].s - 1
          PROVE  \E j \in Carried' : j < i /\ wire'[j].s = k
      <4>1. PICK j \in Carried : j < i + d /\ wire[j].s = k
        BY <3>3, <3>4
      <4>2. j - d \in Carried' /\ wire'[j - d] = wire[j] /\ j - d < i
        BY <1>0, <1>a, <4>1
      <4> QED BY <4>1, <4>2
    <3> QED BY <3>1, <3>2, <3>3, <3>4
  <2>2. ASSUME session' = "fresh" PROVE \A i \in Carried' : \E h \in Heralds' : h < i
    <3> SUFFICES ASSUME NEW i \in Carried' PROVE \E h \in Heralds' : h < i
      OBVIOUS
    <3>1. i + d \in Carried /\ session = "fresh"
      BY <1>a, <2>2
    <3>2. PICK h \in Heralds : h < i + d
      BY <3>1 DEF BridgeInv, LinkInv
    <3>3. h - d \in Heralds' /\ h - d < i
      BY <1>0, <1>a, <2>2, <3>2
    <3> QED BY <3>3
  <2>3. ASSUME attached'
        PROVE  /\ Followed'
               /\ session' = "fresh" => Heralds' # {}
               /\ \A k \in From' + 1..Len(stream') : \E j \in Carried' : wire'[j].s = k
    <3>1. Followed' /\ attached /\ Followed /\ From' = From /\ stream' = stream
      BY <2>3 DEF SessionKept
    <3>2. session' = "fresh" => Heralds' # {}
      BY <1>a, <3>1 DEF BridgeInv, LinkInv
    <3>3. ASSUME NEW k \in From + 1..Len(stream) PROVE \E j \in Carried' : wire'[j].s = k
      <4>1. PICK j \in Carried : wire[j].s = k
        BY <3>1, <3>3 DEF BridgeInv, LinkInv
      <4> QED BY <1>a, <4>1
    <3> QED BY <3>1, <3>2, <3>3
  <2> QED BY <2>1, <2>2, <2>3 DEF LinkInv
<1> QED BY <1>1, <1>2, <1>3, <1>4

-----------------------------------------------------------------------------
(* What is handed on.                                                      *)

\* Only reading an event adds to what was handed on; nothing is ever taken back.
LEMMA MetStays ==
    ASSUME GatewayTypeOK, [GatewayNext]_gatewayVars, ~ReadEvent
    PROVE  Met' = Met
<1> USE DEF Held, Met
<1>0. /\ NoPost \notin Messages /\ queue \in Seq(Messages)
      /\ router \in [at : Stages, post : Messages \cup {NoPost}]
      /\ (router.post = NoPost <=> router.at = "idle")
      /\ answer \in [Messages -> Routed \cup {"none", "dropped", "ignored", "lost"}]
  BY PostsType DEF NoPost, Messages, GatewayTypeOK, RouterTypeOK
<1>1. CASE UNCHANGED <<current, queue, router, answer>>
  BY <1>1
<1>2. CASE Handle
  <2>1. /\ current \in Messages /\ current' = NoPost /\ UNCHANGED router
        /\ \/ queue' = Append(queue, current) /\ UNCHANGED answer
           \/ UNCHANGED queue /\ answer' = [answer EXCEPT ![current] = "dropped"]
    BY <1>2, PostsType DEF Handle, GatewayTypeOK, ClientTypeOK
  <2>2. Range(Append(queue, current)) = Range(queue) \cup {current}
    <3>1. /\ DOMAIN queue = 1..Len(queue) /\ DOMAIN Append(queue, current) = 1..(Len(queue) + 1) /\ Len(queue) \in Nat
          /\ \A i \in 1..Len(queue) : Append(queue, current)[i] = queue[i]
          /\ Append(queue, current)[Len(queue) + 1] = current
      BY <1>0, <2>1, FrameArrives
    <3>2. DOMAIN Append(queue, current) = DOMAIN queue \cup {Len(queue) + 1}
      BY <3>1
    <3>3. \A i \in DOMAIN queue : Append(queue, current)[i] = queue[i]
      BY <3>1
    <3> HIDE DEF Held, Met
    <3> QED BY <3>1, <3>2, <3>3 DEF Range
  <2>3. CASE queue' = Append(queue, current) /\ UNCHANGED answer
    BY <1>0, <2>1, <2>2, <2>3
  <2>4. CASE UNCHANGED queue /\ answer' = [answer EXCEPT ![current] = "dropped"]
    BY <1>0, <2>1, <2>4
  <2> QED BY <2>1, <2>3, <2>4
<1>3. CASE Take
  <2>1. /\ queue # <<>> /\ router.post = NoPost /\ router'.post = Head(queue) /\ queue' = Tail(queue)
        /\ UNCHANGED <<answer, current>>
    BY <1>0, <1>3 DEF Take, At, RouterOnly, clientVars
  <2>2. Range(queue) = Range(Tail(queue)) \cup {Head(queue)}
    <3>1. /\ Head(queue) = queue[1] /\ 1 \in 1..Len(queue) /\ Len(queue) \in Nat
          /\ DOMAIN queue = 1..Len(queue) /\ DOMAIN Tail(queue) = 1..(Len(queue) - 1)
          /\ \A i \in 1..(Len(queue) - 1) : Tail(queue)[i] = queue[i+1] /\ i + 1 \in 1..Len(queue)
      BY <1>0, <2>1, FrameRead
    <3>2. \A i \in 2..Len(queue) : i - 1 \in 1..(Len(queue) - 1) /\ Tail(queue)[i-1] = queue[i]
      <4> SUFFICES ASSUME NEW i \in 2..Len(queue)
                   PROVE  i - 1 \in 1..(Len(queue) - 1) /\ Tail(queue)[i-1] = queue[i]
        OBVIOUS
      <4>1. i - 1 \in 1..(Len(queue) - 1) /\ (i - 1) + 1 = i
        BY <3>1
      <4> QED BY <3>1, <4>1
    <3>3. \A i \in 1..Len(queue) : i = 1 \/ i \in 2..Len(queue)
      BY <3>1
    <3> HIDE DEF Held, Met
    <3>4. Range(Tail(queue)) \cup {Head(queue)} \subseteq Range(queue)
      BY <3>1 DEF Range
    <3>5. ASSUME NEW x \in Range(queue) PROVE x \in Range(Tail(queue)) \cup {Head(queue)}
      <4>1. PICK i \in 1..Len(queue) : x = queue[i]
        BY <3>1 DEF Range
      <4>2. CASE i = 1
        BY <3>1, <4>1, <4>2
      <4>3. CASE i \in 2..Len(queue)
        BY <3>1, <3>2, <4>1, <4>3 DEF Range
      <4> QED BY <3>3, <4>2, <4>3
    <3> QED BY <3>4, <3>5
  <2> QED BY <1>0, <2>1, <2>2
<1>4. CASE UNCHANGED <<current, queue>> /\ router'.post = router.post /\ UNCHANGED answer
  BY <1>4
<1>5. ASSUME UNCHANGED <<current, queue>>, ~At("idle"), NEW what \in {"task", "swallowed", "foreman", "ignored"}, Done(what)
      PROVE  Met' = Met
  <2>1. router.post \in Messages /\ router'.post = NoPost /\ answer'[router.post] # "none"
        /\ \A n \in Messages \ {router.post} : answer'[n] = answer[n]
    BY <1>0, <1>5 DEF At, Done, Idle
  <2> QED BY <1>0, <1>5, <2>1
<1>6. CASE Route \/ ChooseTool \/ Redirect \/ SendFollowup \/ Trigger
  <2>1. UNCHANGED <<current, queue>> /\ ~At("idle")
    BY <1>6 DEF Route, ChooseTool, Redirect, SendFollowup, Trigger, RouterOnly, clientVars, At
  <2>2. \/ \E place \in Stages : Goes(place) /\ UNCHANGED answer
        \/ \E what \in {"task", "swallowed", "foreman", "ignored"} : Done(what)
    <3>1. CASE Route
      BY <3>1 DEF Route, Stages
    <3>2. CASE ChooseTool
      BY <3>2 DEF ChooseTool, Stages
    <3>3. CASE Redirect
      BY <3>3 DEF Redirect, Stages
    <3>4. CASE SendFollowup
      BY <3>4 DEF SendFollowup, Stages
    <3>5. CASE Trigger
      BY <3>5 DEF Trigger
    <3> QED BY <1>6, <3>1, <3>2, <3>3, <3>4, <3>5
  <2>3. ASSUME NEW place \in Stages, Goes(place) PROVE router'.post = router.post
    BY <1>0, <2>3 DEF Goes
  <2> QED BY <1>4, <1>5, <2>1, <2>2, <2>3
<1>7. CASE GatewayRestart
  <2>1. /\ current' = NoPost /\ router'.post = NoPost /\ queue' = <<>>
        /\ \A n \in Messages : answer'[n] = IF n \in Held THEN "lost" ELSE answer[n]
    BY <1>7 DEF GatewayRestart, Idle
  <2>2. Range(queue') = {}
    BY <2>1 DEF Range
  <2> QED BY <1>0, <2>1, <2>2
<1>8. Post \/ Bind \/ CacheExpires \/ TaskMoves \/ Lose \/ FallSilent \/ AskReconnect \/ Invalidate
         \/ Beat \/ HeartbeatCloses \/ UNCHANGED gatewayVars
         => UNCHANGED <<current, queue, router, answer>>
  BY DEF Post, Bind, CacheExpires, TaskMoves, Lose, FallSilent, AskReconnect, Invalidate, Beat,
         HeartbeatCloses, Unacked, clientVars, routerVars, gatewayVars
<1>9. Connect \/ Hello \/ Resume \/ Cool \/ CoolEnds \/ Identify \/ Notice \/ Close
         => UNCHANGED <<current, queue, router, answer>>
  BY DEF Connect, Hello, Resume, Cool, CoolEnds, Identify, Notice, Close, routerVars
<1>10. ReadReady \/ ReadResumed \/ ReadAck \/ ReadReconnect \/ ReadInvalid \/ ReadRetry
         => UNCHANGED <<current, queue, router, answer>>
  BY DEF ReadReady, ReadResumed, ReadAck, ReadReconnect, ReadInvalid, ReadRetry, routerVars
<1> HIDE DEF Held, Met
<1> QED
  BY <1>1, <1>2, <1>3, <1>6, <1>7, <1>8, <1>9, <1>10
  DEF GatewayNext, Discord, Client, Router

\* Reading an event hands its message on.
LEMMA MetGrows ==
    ASSUME GatewayTypeOK, ReadEvent, wire[1].post \in Messages, Head(wire) = wire[1]
    PROVE  Met' = Met \cup {wire[1].post}
<1>1. /\ current = NoPost /\ current' = wire[1].post /\ UNCHANGED <<queue, router, answer>>
      /\ NoPost \notin Messages
  BY PostsType DEF ReadEvent, Read, routerVars, GatewayTypeOK, ClientTypeOK, NoPost, Messages
<1> QED BY <1>1 DEF Met, Held

-----------------------------------------------------------------------------
(* The steps that dispatch nothing new and hand nothing on.                *)

\* Every step but a post, a session asked for and an event read.
LEMMA QuietStep ==
    ASSUME BridgeInv, GatewayTypeOK', [GatewayNext]_gatewayVars, ~Post, ~ReadEvent,
           ~(Identify /\ attached'), ~(Resume /\ attached')
    PROVE  NewsInv' /\ TurnInv' /\ StreamInv' /\ LinkInv'
<1> DEFINE Goal == NewsInv' /\ TurnInv' /\ StreamInv' /\ LinkInv'
<1> USE DEF serverVars, lineVars, sessionVars
<1>0. /\ GatewayTypeOK /\ NewsInv /\ TurnInv /\ LoopInv /\ StreamInv /\ LinkInv /\ Met' = Met
      /\ sess = "live" => session = "known"
      /\ attached => Followed /\ session # "none"
  BY MetStays DEF BridgeInv, GatewayTypeOK, ClientTypeOK, DiscordTypeOK, LinkInv
<1>a. ASSUME UNCHANGED <<session, stream, sess, seq>>
      PROVE  SessionKept /\ Followed' = Followed /\ session' \in {session, "none"}
  BY <1>0, <1>a DEF SessionKept, Followed, From, StreamInv
<1>b. ASSUME UNCHANGED <<sent, session, stream, sess, seq>>, NEW d \in {0, 1}, NewsMoves(d), HeraldsMove(d),
             attached' => attached
      PROVE  Goal
  BY <1>0, <1>a, <1>b, KeptStep
<1>c. ASSUME wire' = <<>> PROVE Carried' = {} /\ Heralds' = {} /\ Turning' = {}
  BY <1>c DEF Carried, Heralds, Turning
<1>d. ASSUME sess' # "live", session' # "fresh", session' = "none" => stream' = <<>>, stream' \in {stream, <<>>}
      PROVE  SessionKept /\ ~Followed'
  BY <1>d DEF SessionKept, Followed
<1>1. CASE UNCHANGED <<wire, serverVars, sess, seq>>
  BY <1>0, <1>1, <1>a, <1>b, SameMoves
<1>2. ASSUME NEW end, Cut(end), UNCHANGED <<sent, session, stream, sess, seq>> PROVE Goal
  <2>1. CASE wire' = wire
    BY <1>0, <1>2, <1>a, <1>b, <2>1, SameMoves DEF Cut
  <2>2. CASE wire' = <<>>
    BY <1>0, <1>2, <1>a, <1>c, <2>2, LostStep DEF Cut
  <2> QED BY <1>2, <2>1, <2>2 DEF Cut
<1>3. CASE Lose \/ FallSilent
  BY <1>2, <1>3 DEF Lose, FallSilent, clientVars
<1>4. CASE HeartbeatCloses
  BY <1>2, <1>4 DEF HeartbeatCloses, Unacked
<1>5. ASSUME NEW op \in Ops \ {"event", "ready"}, wire' = Append(wire, Frame(op)),
             op \in {"invalid", "retry"} => ~attached' /\ Turning = {},
             UNCHANGED <<sent, session, stream, sess, seq>>, attached' => attached
      PROVE  Goal
  BY <1>0, <1>5, <1>a, <1>b, AppendMoves
<1>6. CASE AskReconnect
  BY <1>5, <1>6 DEF AskReconnect, clientVars, Ops
<1>7. CASE Beat
  BY <1>1, <1>5, <1>7 DEF Beat, Ops
<1>8. CASE Resume
  <2>1. loop = "resume" /\ ~attached' /\ UNCHANGED <<sess, seq>>
    BY <1>8 DEF Resume
  <2>2. Turning = {}
    BY <1>0, <2>1 DEF LoopInv
  <2>3. UNCHANGED serverVars /\ wire' \in {wire, Append(wire, Frame("retry")), Append(wire, Frame("invalid"))}
    BY <1>8, <2>1 DEF Resume, Unsent
  <2> QED BY <1>1, <1>5, <2>1, <2>2, <2>3 DEF Ops
<1>9. CASE Identify
  <2>1. loop = "identify" /\ ~attached' /\ UNCHANGED seq
    BY <1>9 DEF Identify
  <2>2. Turning = {}
    BY <1>0, <2>1 DEF LoopInv
  <2>3. UNCHANGED <<sess, serverVars>> /\ wire' \in {wire, Append(wire, Frame("invalid"))}
    BY <1>9, <2>1 DEF Identify, Unsent
  <2> QED BY <1>1, <1>5, <2>1, <2>2, <2>3 DEF Ops
<1>10. CASE Invalidate
  <2>1. /\ session' = "none" /\ stream' = <<>> /\ ~attached' /\ sess' # "live" /\ sent' = sent
    BY <1>10 DEF Invalidate, Gone
  <2>2. SessionKept
    BY <1>d, <2>1
  <2>3. CASE attached
    <3>1. Turning = {}
      BY <1>0, <2>3 DEF TurnInv
    <3>2. NewsMoves(0) /\ HeraldsMove(0)
      BY <1>0, <1>10, <2>1, <2>3, <3>1, AppendMoves DEF Invalidate, Ops
    <3> QED BY <1>0, <2>1, <2>2, <3>2, KeptStep
  <2>4. CASE ~attached
    <3>1. NewsMoves(0) /\ HeraldsMove(0)
      BY <1>0, <1>10, <2>1, <2>4, SameMoves DEF Invalidate
    <3> QED BY <1>0, <2>1, <2>2, <3>1, KeptStep
  <2> QED BY <2>3, <2>4
<1>11. CASE Connect
  <2>1. wire' = <<Frame("hello")>> /\ UNCHANGED <<serverVars, sess, seq>>
    BY <1>11 DEF Connect
  <2>2. DOMAIN wire' = {1} /\ wire'[1].op = "hello"
    BY <2>1 DEF Frame
  <2>3. Carried' = {} /\ Heralds' = {} /\ Turning' = {}
    BY <2>2 DEF Carried, Heralds, Turning
  <2>4. ~attached'
    BY <1>0, <1>11, <2>1 DEF Connect, LoopInv, GatewayTypeOK, DiscordTypeOK
  <2> QED BY <1>0, <1>a, <2>1, <2>3, <2>4, LostStep
<1>12. ASSUME NEW op \in Ops \ {"event", "ready"}, Arrives(op),
              UNCHANGED <<sent, session, stream, sess, seq>>, attached' => attached
       PROVE  Goal
  BY <1>0, <1>12, <1>a, <1>b, TailMoves
<1>13. CASE Hello
  BY <1>12, <1>13 DEF Hello, Ops
<1>14. CASE ReadResumed \/ ReadAck \/ ReadRetry
  BY <1>12, <1>14 DEF ReadResumed, ReadAck, ReadRetry, Read, Ops
<1>15. CASE ReadReconnect
  <2>1. CASE UNCHANGED <<stream, session, sess>>
    BY <1>12, <1>15, <2>1 DEF ReadReconnect, Read, Ops
  <2>2. CASE session' = "none" /\ stream' = <<>> /\ sess' = Gone(sess)
    <3>1. NewsMoves(1) /\ HeraldsMove(1)
      BY <1>0, <1>15, <2>2, TailMoves DEF ReadReconnect, Read, Ops
    <3>2. SessionKept /\ ~attached' /\ sent' = sent
      BY <1>15, <1>d, <2>2 DEF ReadReconnect, Gone
    <3> QED BY <1>0, <3>1, <3>2, KeptStep
  <2> QED BY <1>15, <2>1, <2>2 DEF ReadReconnect
<1>16. CASE ReadInvalid
  <2>1. Arrives("invalid") /\ sess' = "none" /\ UNCHANGED serverVars
    BY <1>16 DEF ReadInvalid, Read
  <2>2. NewsMoves(1) /\ HeraldsMove(1) /\ 1 \in DOMAIN wire /\ wire[1].op = "invalid"
    BY <1>0, <2>1, TailMoves DEF Ops
  <2>3. 1 \in Turning
    BY <2>2 DEF Turning
  <2>4. ~attached'
    BY <1>0, <2>1, <2>3 DEF TurnInv
  <2>5. SessionKept
    <3>1. Followed' => Followed /\ From' = 0 /\ From = 0
      BY <1>0, <2>1 DEF Followed, From
    <3> QED BY <1>0, <2>1, <3>1 DEF SessionKept, StreamInv
  <2> QED BY <1>0, <2>1, <2>2, <2>4, <2>5, KeptStep
<1>17. CASE ReadReady
  <2>1. Arrives("ready") /\ seq' = 0 /\ UNCHANGED <<sent, stream, attached>>
    BY <1>17 DEF ReadReady, Read
  <2>2. /\ NewsMoves(1) /\ 1 \in DOMAIN wire /\ wire[1].op = "ready"
        /\ \A i \in Heralds \ {1} : i - 1 \in Heralds'
    BY <1>0, <2>1, TailMoves DEF Ops
  <2>3. 1 \in Heralds /\ session # "known" /\ Heralds' = {}
    <3>1. 1 \in Heralds
      BY <2>2 DEF Heralds
    <3>2. \A i \in Heralds' : i + 1 = 1
      BY <1>0, <2>2, <3>1 DEF NewsMoves, NewsInv
    <3>3. Heralds' \subseteq Nat \ {0}
      BY DEF Heralds, GatewayTypeOK, DiscordTypeOK
    <3>4. Heralds' = {}
      BY <3>2, <3>3
    <3> QED BY <1>0, <3>1, <3>4 DEF NewsInv
  <2>4. CASE session = "fresh"
    <3>1. session' = "known" /\ sess' = "live"
      BY <1>17, <2>4 DEF ReadReady
    <3>2. HeraldsMove(1)
      BY <2>3, <3>1 DEF HeraldsMove
    <3>3. SessionKept /\ Followed'
      BY <1>0, <2>1, <2>4, <3>1 DEF SessionKept, Followed, From
    <3> QED BY <1>0, <2>1, <2>2, <3>2, <3>3, KeptStep
  <2>5. CASE session # "fresh"
    <3>1. session' = session /\ session = "none" /\ sess' = "gone"
      BY <1>0, <1>17, <2>3, <2>5 DEF ReadReady, GatewayTypeOK, DiscordTypeOK
    <3>2. HeraldsMove(1)
      BY <2>3, <3>1 DEF HeraldsMove
    <3>3. SessionKept /\ ~attached'
      BY <1>0, <1>d, <2>1, <3>1 DEF StreamInv
    <3> QED BY <1>0, <2>1, <2>2, <3>2, <3>3, KeptStep
  <2> QED BY <2>4, <2>5
<1>18. CASE GatewayRestart
  <2>1. sess' = "none" /\ wire' = <<>> /\ ~attached' /\ UNCHANGED <<sent, stream, session>>
    BY <1>18 DEF GatewayRestart
  <2>2. SessionKept
    <3>1. Followed' => Followed /\ From' = 0 /\ From = 0
      BY <1>0, <2>1 DEF Followed, From
    <3> QED BY <1>0, <2>1, <3>1 DEF SessionKept, StreamInv
  <2> QED BY <1>0, <1>c, <2>1, <2>2, LostStep
<1>19. Bind \/ CacheExpires \/ TaskMoves \/ Cool \/ CoolEnds \/ Notice \/ Close \/ Handle \/ Router
         \/ UNCHANGED gatewayVars => UNCHANGED <<wire, serverVars, sess, seq>>
  BY DEF Bind, CacheExpires, TaskMoves, Cool, CoolEnds, Notice, Close, Handle, Router, RouterOnly,
         Take, Route, ChooseTool, Redirect, SendFollowup, Trigger, gatewayVars, clientVars
<1> QED
  BY <1>1, <1>3, <1>4, <1>6, <1>7, <1>8, <1>9, <1>10, <1>11, <1>13, <1>14, <1>15, <1>16, <1>17, <1>18, <1>19
  DEF GatewayNext, Discord, Client

-----------------------------------------------------------------------------
(* The steps that dispatch something, or hand something on.                *)

\* A message is posted: the session has it, and the connection if it is attached.
LEMMA PostStep ==
    ASSUME BridgeInv, GatewayTypeOK', Post
    PROVE  NewsInv' /\ TurnInv' /\ StreamInv' /\ LinkInv'
<1> DEFINE L == Len(wire)
           N == Len(stream)
           new == [op |-> "event", post |-> sent + 1, s |-> N + 1]
<1>0. /\ GatewayTypeOK /\ NewsInv /\ TurnInv /\ StreamInv /\ LinkInv
      /\ sent \in Nat /\ sent' = sent + 1 /\ sent' \in Messages
      /\ wire \in Seq(Frames) /\ stream \in Seq(Messages) /\ L \in Nat /\ N \in Nat
      /\ UNCHANGED <<session, attached, sess, seq>>
      /\ Carried \subseteq Nat /\ Heralds \subseteq Nat /\ Turning \subseteq Nat
  BY Positions, PostsType DEF BridgeInv, GatewayTypeOK, DiscordTypeOK, Post, Messages, clientVars, sessionVars
<1>1. Met' = Met /\ Followed' = Followed /\ From' = From /\ From \in Nat
      /\ (Followed => From <= N)
  <2>1. Post => GatewayNext
    BY DEF GatewayNext, Discord
  <2>2. ~ReadEvent
    BY <1>0 DEF ReadEvent, serverVars
  <2>3. Met' = Met
    BY <1>0, <2>1, <2>2, MetStays
  <2> QED BY <1>0, <2>3 DEF Followed, From, GatewayTypeOK, ClientTypeOK, NoSeq
<1>2. CASE session = "none"
  <2>1. ~attached /\ UNCHANGED <<wire, stream>>
    BY <1>0, <1>2 DEF Post, GatewayTypeOK, DiscordTypeOK
  <2>2. Carried' = Carried /\ Heralds' = Heralds /\ Turning' = Turning
    BY <2>1 DEF Carried, Heralds, Turning
  <2>3. \A n \in 1..sent : n \in 1..sent'
    BY <1>0
  <2>4. NewsInv'
    BY <1>0, <1>1, <2>1, <2>2, <2>3 DEF NewsInv
  <2>5. StreamInv'
    BY <1>0, <1>1, <1>2, <2>1, <2>3 DEF StreamInv, Met, Messages
  <2>6. TurnInv' /\ LinkInv'
    BY <1>0, <1>1, <2>1, <2>2 DEF TurnInv, LinkInv
  <2> QED BY <2>4, <2>5, <2>6
<1>3. CASE session # "none"
  <2>1. stream' = Append(stream, sent + 1)
    BY <1>0, <1>3 DEF Post
  <2>2. /\ Len(stream') = N + 1
        /\ \A k \in 1..N : stream'[k] = stream[k]
        /\ stream'[N + 1] = sent + 1
    BY <1>0, <2>1
  <2>3. \A k \in 1..N + 1 : k \in 1..N \/ k = N + 1
    BY <1>0
  <2>4. StreamInv'
    <3>1. Len(stream') <= sent' /\ \A n \in Met' : n <= sent'
      BY <1>0, <1>1, <2>2 DEF StreamInv, Met, Messages
    <3>2. \A k \in 1..N : stream[k] \in Nat /\ stream[k] <= sent
      <4>1. \A k \in 1..N : stream[k] \in Messages /\ stream[k] <= sent
        BY <1>0 DEF StreamInv
      <4>2. Messages \subseteq Nat
        BY PostsType DEF Messages
      <4> QED BY <4>1, <4>2
    <3>3. \A k \in 1..Len(stream') : stream'[k] <= sent'
      BY <1>0, <2>2, <2>3, <3>2
    <3>4. \A k, l \in 1..Len(stream') : k < l => stream'[k] < stream'[l]
      <4> SUFFICES ASSUME NEW k \in 1..N + 1, NEW l \in 1..N + 1, k < l
                   PROVE  stream'[k] < stream'[l]
        BY <2>2
      <4>1. k \in 1..N
        BY <1>0
      <4>2. CASE l \in 1..N
        BY <1>0, <2>2, <4>1, <4>2 DEF StreamInv
      <4>3. CASE l = N + 1
        BY <1>0, <2>2, <3>2, <4>1, <4>3
      <4> QED BY <2>3, <4>2, <4>3
    <3>5. ASSUME Followed', NEW k \in From' + 1..Len(stream'), NEW n \in Met'
          PROVE  n < stream'[k]
      <4>1. n \in Nat /\ n <= sent
        BY <1>0, <1>1 DEF StreamInv, Met, Messages
      <4>2. CASE k = N + 1
        BY <1>0, <2>2, <4>1, <4>2
      <4>3. CASE k \in 1..N
        <5>1. k \in From + 1..N
          BY <1>0, <1>1, <4>3
        <5> QED BY <1>0, <1>1, <2>2, <3>5, <4>3, <5>1 DEF StreamInv
      <4>4. k \in 1..N + 1
        BY <1>0, <1>1, <2>2
      <4> QED BY <2>3, <4>2, <4>3, <4>4
    <3> QED BY <1>0, <1>3, <3>1, <3>3, <3>4, <3>5 DEF StreamInv
  <2>5. ASSUME Followed, NEW i \in Carried
        PROVE  /\ wire[i].s \in From + 1..Len(stream') /\ wire[i].post = stream'[wire[i].s]
               /\ \A k \in From + 1..wire[i].s - 1 : \E j \in Carried : j < i /\ wire[j].s = k
    <3>1. /\ wire[i].s \in From + 1..N /\ wire[i].post = stream[wire[i].s]
          /\ \A k \in From + 1..wire[i].s - 1 : \E j \in Carried : j < i /\ wire[j].s = k
      BY <1>0, <2>5 DEF LinkInv
    <3>2. wire[i].s \in 1..N /\ wire[i].s \in From + 1..N + 1
      BY <1>0, <1>1, <3>1
    <3> QED BY <2>2, <3>1, <3>2
  <2>6. \A n \in 1..sent : n \in 1..sent' /\ n < sent + 1
    BY <1>0
  <2>7. CASE ~attached
    <3>1. UNCHANGED wire /\ ~attached'
      BY <1>0, <2>7 DEF Post
    <3>2. Carried' = Carried /\ Heralds' = Heralds /\ Turning' = Turning
      BY <3>1 DEF Carried, Heralds, Turning
    <3>3. NewsInv'
      BY <1>0, <1>1, <2>6, <3>1, <3>2 DEF NewsInv
    <3>4. TurnInv'
      BY <1>0, <3>1, <3>2 DEF TurnInv
    <3>5. LinkInv'
      BY <1>0, <1>1, <2>5, <3>1, <3>2 DEF LinkInv
    <3> QED BY <2>4, <3>3, <3>4, <3>5
  <2>8. CASE attached
    <3>1. wire' = Append(wire, new)
      BY <1>0, <2>2, <2>8 DEF Post
    <3>2. new \in Frames
      <4>1. N + 1 \in 0..MaxPosts
        BY <1>0, PostsType DEF StreamInv, Messages
      <4> QED BY <1>0, <4>1 DEF Frames, Ops
    <3>3. /\ DOMAIN wire = 1..L /\ DOMAIN wire' = 1..(L + 1)
          /\ \A i \in 1..L : wire'[i] = wire[i]
          /\ wire'[L + 1] = new
      BY <1>0, <3>1, <3>2, FrameArrives
    <3>4. new.op = "event" /\ new.post = sent + 1 /\ new.s = N + 1
      OBVIOUS
    <3> HIDE DEF new
    <3>5. \A i \in 1..(L + 1) : i \in 1..L \/ i = L + 1
      BY <1>0
    <3>6. Carried' = Carried \cup {L + 1} /\ Heralds' = Heralds /\ Turning' = Turning
      BY <1>0, <3>3, <3>4, <3>5 DEF Carried, Heralds, Turning
    <3>7. \A i \in Carried : i \in 1..L /\ wire'[i] = wire[i] /\ i < L + 1
      BY <1>0, <3>3 DEF Carried
    <3>8. NewsInv'
      <4>1. \A i \in Carried : wire[i].post \in 1..sent /\ \A n \in Met : n < wire[i].post
        BY <1>0 DEF NewsInv
      <4>2. \A n \in Met : n < sent + 1
        BY <1>0 DEF StreamInv, Met, Messages
      <4>3. \A i \in Carried' : wire'[i].post \in 1..sent' /\ \A n \in Met' : n < wire'[i].post
        BY <1>0, <1>1, <2>6, <3>3, <3>4, <3>6, <3>7, <4>1, <4>2
      <4>4. ASSUME NEW i \in Carried', NEW j \in Carried', i < j PROVE wire'[i].post < wire'[j].post
        <5>1. i \in Carried
          BY <1>0, <3>6, <3>7, <4>4
        <5>2. CASE j \in Carried
          BY <1>0, <3>7, <4>4, <5>1, <5>2 DEF NewsInv
        <5>3. CASE j = L + 1
          BY <1>0, <2>6, <3>3, <3>4, <3>7, <4>1, <5>1, <5>3
        <5> QED BY <3>6, <5>2, <5>3
      <4>5. (\A i, j \in Heralds' : i = j) /\ (Heralds' # {} => session' # "known")
        BY <1>0, <3>6 DEF NewsInv
      <4> QED BY <4>3, <4>4, <4>5 DEF NewsInv
    <3>9. TurnInv'
      BY <1>0, <2>8, <3>6 DEF TurnInv
    <3>10. LinkInv'
      <4>1. /\ Followed /\ (session = "fresh" => Heralds # {})
            /\ \A k \in From + 1..N : \E j \in Carried : wire[j].s = k
        BY <1>0, <2>8 DEF LinkInv
      <4>2. ASSUME NEW i \in Carried'
            PROVE  /\ wire'[i].s \in From' + 1..Len(stream') /\ wire'[i].post = stream'[wire'[i].s]
                   /\ \A k \in From' + 1..wire'[i].s - 1 : \E j \in Carried' : j < i /\ wire'[j].s = k
        <5>1. CASE i \in Carried
          <6>1. wire'[i] = wire[i] /\ From' = From /\ Carried \subseteq Carried'
            BY <1>1, <3>6, <3>7, <5>1
          <6>2. /\ wire[i].s \in From + 1..Len(stream') /\ wire[i].post = stream'[wire[i].s]
                /\ \A k \in From + 1..wire[i].s - 1 : \E j \in Carried : j < i /\ wire[j].s = k
            BY <2>5, <4>1, <5>1
          <6>3. ASSUME NEW k \in From + 1..wire[i].s - 1 PROVE \E j \in Carried' : j < i /\ wire'[j].s = k
            <7>1. PICK j \in Carried : j < i /\ wire[j].s = k
              BY <6>2, <6>3
            <7> QED BY <3>7, <6>1, <7>1
          <6> QED BY <6>1, <6>2, <6>3
        <5>2. CASE i = L + 1
          <6>1. wire'[i].s = N + 1 /\ wire'[i].post = sent + 1
            BY <3>3, <3>4, <5>2
          <6>2. ASSUME NEW k \in From' + 1..wire'[i].s - 1 PROVE \E j \in Carried' : j < i /\ wire'[j].s = k
            <7>1. k \in From + 1..N
              BY <1>0, <1>1, <6>1, <6>2
            <7> QED BY <3>6, <3>7, <4>1, <5>2, <7>1
          <6>3. N + 1 \in From' + 1..Len(stream')
            BY <1>0, <1>1, <2>2, <4>1
          <6> QED BY <2>2, <6>1, <6>2, <6>3
        <5> QED BY <3>6, <5>1, <5>2
      <4>3. session' = "fresh" => \A i \in Carried' : \E h \in Heralds' : h < i
        <5>1. \A h \in Heralds : h < L + 1
          BY <1>0, <3>3 DEF Heralds
        <5> QED BY <1>0, <3>6, <4>1, <5>1 DEF LinkInv
      <4>4. ASSUME NEW k \in From' + 1..Len(stream') PROVE \E j \in Carried' : wire'[j].s = k
        <5>1. k \in From + 1..N \/ k = N + 1
          BY <1>0, <1>1, <2>2
        <5> QED BY <3>3, <3>4, <3>6, <3>7, <4>1, <5>1
      <4> QED BY <1>0, <1>1, <3>6, <4>1, <4>2, <4>3, <4>4 DEF LinkInv
    <3> QED BY <2>4, <3>8, <3>9, <3>10
  <2> QED BY <2>7, <2>8
<1> QED BY <1>2, <1>3

\* A session of one's own: a READY and nothing else is on its way.
LEMMA IdentifyStep ==
    ASSUME BridgeInv, GatewayTypeOK', Identify, attached'
    PROVE  NewsInv' /\ TurnInv' /\ StreamInv' /\ LinkInv'
<1>0. /\ GatewayTypeOK /\ StreamInv /\ sent \in Nat /\ wire \in Seq(Frames)
      /\ ~attached /\ Carried = {} /\ Heralds = {} /\ Turning = {}
  BY PostsType DEF BridgeInv, GatewayTypeOK, DiscordTypeOK, LoopInv, Identify
<1>1. /\ session' = "fresh" /\ stream' = <<>> /\ sent' = sent
      /\ wire' = Append(wire, Frame("ready"))
  BY <1>0 DEF Identify, Unsent, serverVars
<1>2. Frame("ready") \in Frames /\ Frame("ready").op = "ready"
  BY PostsType DEF Frame, Frames, Ops
<1>3. /\ DOMAIN wire = 1..Len(wire) /\ DOMAIN wire' = 1..(Len(wire) + 1) /\ Len(wire) \in Nat
      /\ \A i \in 1..Len(wire) : wire'[i] = wire[i]
      /\ wire'[Len(wire) + 1].op = "ready"
  BY <1>0, <1>1, <1>2, FrameArrives
<1>4. Carried' = {} /\ Turning' = {} /\ Heralds' = {Len(wire) + 1}
  <2>1. \A i \in 1..Len(wire) : wire[i].op \notin {"event", "ready", "invalid", "retry"}
    BY <1>0, <1>3 DEF Carried, Heralds, Turning
  <2>2. \A i \in 1..(Len(wire) + 1) : i \in 1..Len(wire) \/ i = Len(wire) + 1
    BY <1>3
  <2> QED BY <1>3, <2>1, <2>2 DEF Carried, Heralds, Turning
<1>5. Met' = Met /\ Len(stream') = 0 /\ Followed' /\ From' \in Nat
  <2>1. Identify => GatewayNext
    BY DEF GatewayNext, Client
  <2>2. ~ReadEvent
    BY DEF ReadEvent, Read, Identify
  <2>3. Met' = Met
    BY <1>0, <2>1, <2>2, MetStays
  <2> QED BY <1>1, <2>3 DEF Followed, From, GatewayTypeOK, ClientTypeOK, NoSeq
<1>6. NewsInv' /\ TurnInv'
  BY <1>1, <1>4 DEF NewsInv, TurnInv
<1>7. \A m \in Nat : m + 1..Len(stream') = {}
  <2>1. Len(stream') = 0
    BY <1>5
  <2>2. \A m \in Nat : m + 1..0 = {}
    OBVIOUS
  <2> QED BY <2>1, <2>2
<1>8. StreamInv'
  <2>1. 1..Len(stream') = {}
    BY <1>5
  <2>2. \A x \in Met : x <= sent
    BY <1>0 DEF StreamInv
  <2>3. Len(stream') <= sent' /\ (session' = "none" => stream' = <<>>) /\ \A x \in Met' : x <= sent'
    BY <1>0, <1>1, <1>5, <2>2
  <2>4. /\ \A k, l \in 1..Len(stream') : k < l => stream'[k] < stream'[l]
        /\ \A k \in 1..Len(stream') : stream'[k] <= sent'
    BY <2>1
  <2>5. \A k \in From' + 1..Len(stream'), n \in Met' : n < stream'[k]
    BY <1>5, <1>7
  <2> QED BY <2>3, <2>4, <2>5 DEF StreamInv
<1>9. LinkInv'
  BY <1>1, <1>4, <1>5, <1>7 DEF LinkInv
<1> QED BY <1>6, <1>8, <1>9

\* A session that goes on: all that the client has not seen is on its way.
LEMMA ResumeStep ==
    ASSUME BridgeInv, GatewayTypeOK', Resume, attached'
    PROVE  NewsInv' /\ TurnInv' /\ StreamInv' /\ LinkInv'
<1> DEFINE L == Len(wire)
           n == Len(stream) - seq
<1>0. /\ GatewayTypeOK /\ StreamInv /\ sent \in Nat /\ wire \in Seq(Frames)
      /\ stream \in Seq(Messages) /\ Len(stream) <= sent /\ sent <= MaxPosts
      /\ ~attached /\ Carried = {} /\ Heralds = {} /\ Turning = {}
  BY PostsType DEF BridgeInv, GatewayTypeOK, DiscordTypeOK, LoopInv, StreamInv, Resume
<1>1. /\ sess = "live" /\ session = "known" /\ UNCHANGED <<sent, stream, session, sess, seq>>
      /\ wire' = wire \o Replay \o <<Frame("resumed")>>
  BY <1>0 DEF Resume, Unsent, serverVars, sessionVars, Replay, GatewayTypeOK, ClientTypeOK
<1>2. seq \in Nat /\ seq <= Len(stream) /\ L \in Nat /\ n \in Nat /\ Len(stream) \in Nat
  BY <1>0, <1>1 DEF GatewayTypeOK, ClientTypeOK, NoSeq
<1>3. /\ wire' \in Seq(Frames) /\ Len(wire') = L + n + 1
      /\ \A i \in 1..L : wire'[i] = wire[i]
      /\ \A i \in 1..n : wire'[L + i] = Event(seq + i)
      /\ wire'[L + n + 1] = Frame("resumed")
  <2>1. MaxPosts \in Nat /\ Len(stream) <= MaxPosts
    BY <1>0, <1>2, PostsType
  <2> QED BY <1>0, <1>1, <1>2, <2>1, Replayed
<1>4. /\ \A i \in 1..n : /\ wire'[L + i].op = "event" /\ wire'[L + i].s = seq + i
                         /\ wire'[L + i].post = stream[seq + i]
      /\ wire'[L + n + 1].op = "resumed"
  <2>1. Frame("resumed").op = "resumed"
    BY DEF Frame
  <2>2. ASSUME NEW i \in 1..n
        PROVE  /\ Event(seq + i).op = "event" /\ Event(seq + i).s = seq + i
               /\ Event(seq + i).post = stream[seq + i]
    BY DEF Event
  <2> HIDE DEF L, n
  <2> QED BY <1>3, <2>1, <2>2
<1>5. DOMAIN wire' = 1..L + n + 1 /\ DOMAIN wire = 1..L
  BY <1>0, <1>3
<1> HIDE DEF L, n
<1>6. \A i \in 1..L + n + 1 : i \in 1..L \/ (\E m \in 1..n : i = L + m) \/ i = L + n + 1
  <2> SUFFICES ASSUME NEW i \in 1..L + n + 1, i \notin 1..L, i # L + n + 1
               PROVE  \E m \in 1..n : i = L + m
    OBVIOUS
  <2>1. i - L \in 1..n /\ i = L + (i - L)
    BY <1>2
  <2> QED BY <2>1
<1>7. \A i \in 1..L : wire[i].op \notin {"event", "ready", "invalid", "retry"}
  BY <1>0, <1>5 DEF Carried, Heralds, Turning
<1>8. Heralds' = {} /\ Turning' = {}
  BY <1>3, <1>4, <1>5, <1>6, <1>7 DEF Heralds, Turning
<1>9. ASSUME NEW i \in Carried' PROVE \E m \in 1..n : i = L + m
  BY <1>3, <1>4, <1>5, <1>6, <1>7, <1>9 DEF Carried
<1>10. ASSUME NEW m \in 1..n PROVE L + m \in Carried' /\ seq + m \in 1..Len(stream)
  <2>1. L + m \in 1..L + n + 1 /\ seq + m \in 1..Len(stream)
    BY <1>2 DEF n
  <2> QED BY <1>4, <1>5, <2>1 DEF Carried
<1>11. Met' = Met /\ Followed' /\ Followed /\ From' = seq /\ From = seq
  <2>1. Resume => GatewayNext
    BY DEF GatewayNext, Client
  <2>2. ~ReadEvent
    BY DEF ReadEvent, Read, Resume
  <2>3. Met' = Met
    BY <1>0, <2>1, <2>2, MetStays
  <2> QED BY <1>1, <2>3 DEF Followed, From
<1>12. NewsInv'
  <2>1. ASSUME NEW i \in Carried', NEW j \in Carried', i < j PROVE wire'[i].post < wire'[j].post
    <3>1. PICK a \in 1..n : i = L + a
      BY <1>9
    <3>2. PICK b \in 1..n : j = L + b
      BY <1>9
    <3>3. seq + a < seq + b
      BY <1>2, <2>1, <3>1, <3>2
    <3>4. stream[seq + a] < stream[seq + b]
      BY <1>0, <1>10, <3>3 DEF StreamInv
    <3> QED BY <1>4, <3>1, <3>2, <3>4
  <2>2. ASSUME NEW i \in Carried' PROVE wire'[i].post \in 1..sent' /\ \A x \in Met' : x < wire'[i].post
    <3>1. PICK a \in 1..n : i = L + a
      BY <1>9
    <3>2. seq + a \in 1..Len(stream) /\ seq + a \in seq + 1..Len(stream)
      BY <1>2, <1>10
    <3>3. stream[seq + a] \in Messages /\ stream[seq + a] <= sent
      BY <1>0, <3>2 DEF StreamInv
    <3>4. stream[seq + a] \in 1..sent /\ \A x \in Met : x < stream[seq + a]
      BY <1>0, <1>11, <3>2, <3>3 DEF StreamInv, Messages
    <3> QED BY <1>1, <1>4, <1>11, <3>1, <3>4
  <2> QED BY <1>8, <2>1, <2>2 DEF NewsInv
<1>13. TurnInv'
  BY <1>8 DEF TurnInv
<1>14. StreamInv'
  BY <1>0, <1>1, <1>11 DEF StreamInv
<1>15. LinkInv'
  <2>1. ASSUME NEW i \in Carried'
        PROVE  /\ wire'[i].s \in seq + 1..Len(stream) /\ wire'[i].post = stream[wire'[i].s]
               /\ \A k \in seq + 1..wire'[i].s - 1 : \E j \in Carried' : j < i /\ wire'[j].s = k
    <3>1. PICK a \in 1..n : i = L + a
      BY <1>9
    <3>2. wire'[i].s = seq + a /\ wire'[i].post = stream[seq + a] /\ seq + a \in seq + 1..Len(stream)
      BY <1>2, <1>4, <1>10, <3>1
    <3>3. ASSUME NEW k \in seq + 1..wire'[i].s - 1 PROVE \E j \in Carried' : j < i /\ wire'[j].s = k
      <4>1. k - seq \in 1..n /\ L + (k - seq) < i /\ seq + (k - seq) = k
        BY <1>2, <3>1, <3>2
      <4> QED BY <1>4, <1>10, <4>1
    <3> QED BY <3>2, <3>3
  <2>2. ASSUME NEW k \in seq + 1..Len(stream) PROVE \E j \in Carried' : wire'[j].s = k
    <3>1. k - seq \in 1..n /\ seq + (k - seq) = k
      BY <1>2 DEF n
    <3> QED BY <1>4, <1>10, <3>1
  <2> QED BY <1>1, <1>11, <2>1, <2>2 DEF LinkInv
<1> QED BY <1>12, <1>13, <1>14, <1>15

\* The oldest event is handed on: the others, and the session, follow it.
LEMMA ReadEventStep ==
    ASSUME BridgeInv, GatewayTypeOK', ReadEvent
    PROVE  NewsInv' /\ TurnInv' /\ StreamInv' /\ LinkInv'
<1>0. /\ GatewayTypeOK /\ NewsInv /\ TurnInv /\ StreamInv /\ LinkInv
      /\ wire \in Seq(Frames) /\ wire # <<>> /\ wire' = Tail(wire) /\ sent \in Nat
      /\ UNCHANGED <<sent, stream, session, attached, sess>> /\ seq \in Nat
      /\ Carried \subseteq Nat /\ Heralds \subseteq Nat /\ Turning \subseteq Nat
      /\ stream \in Seq(Messages)
  BY Positions, PostsType DEF BridgeInv, GatewayTypeOK, DiscordTypeOK, ClientTypeOK, NoSeq, ReadEvent, Read,
     Arrives, serverVars
<1>1. /\ Head(wire) = wire[1] /\ 1 \in Carried /\ 1 \in DOMAIN wire /\ wire[1].post \in Messages
      /\ Followed => /\ sess = "live" /\ wire[1].s = seq + 1 /\ seq + 1 \in 1..Len(stream)
                     /\ wire[1].post = stream[seq + 1]
  BY <1>0, FirstEvent DEF ReadEvent
<1>2. Met' = Met \cup {wire[1].post} /\ seq' = wire[1].s
  BY <1>0, <1>1, MetGrows DEF ReadEvent
<1>3. Followed' = Followed
  BY <1>0 DEF Followed
<1>4. /\ DOMAIN wire = 1..Len(wire) /\ DOMAIN wire' = 1..(Len(wire) - 1) /\ Len(wire) \in Nat
      /\ \A i \in 1..(Len(wire) - 1) : wire'[i] = wire[i+1] /\ i + 1 \in 1..Len(wire)
      /\ wire[1].op = "event"
  BY <1>0, <1>1, FrameRead DEF Carried
<1>5. \A i \in DOMAIN wire \ {1} : i - 1 \in DOMAIN wire' /\ wire'[i-1] = wire[i]
  <2> SUFFICES ASSUME NEW i \in DOMAIN wire \ {1} PROVE i - 1 \in DOMAIN wire' /\ wire'[i-1] = wire[i]
    OBVIOUS
  <2>1. i - 1 \in 1..(Len(wire) - 1) /\ (i - 1) + 1 = i
    BY <1>4
  <2> QED BY <1>4, <2>1
<1>6. \A i \in DOMAIN wire' : i + 1 \in DOMAIN wire /\ wire'[i] = wire[i+1] /\ i \in Nat /\ 1 < i + 1
  BY <1>4
<1>7. /\ \A i \in Carried' : i + 1 \in Carried /\ wire'[i] = wire[i+1] /\ i \in Nat /\ 1 < i + 1
      /\ \A i \in Heralds' : i + 1 \in Heralds /\ i \in Nat
      /\ \A i \in Turning' : i + 1 \in Turning /\ i \in Nat
      /\ \A i \in Carried \ {1} : i - 1 \in Carried' /\ wire'[i-1] = wire[i]
  BY <1>5, <1>6 DEF Carried, Heralds, Turning
<1>8. NewsInv'
  <2>1. ASSUME NEW i \in Carried', NEW j \in Carried', i < j PROVE wire'[i].post < wire'[j].post
    <3>1. i + 1 \in Carried /\ j + 1 \in Carried /\ i + 1 < j + 1
      BY <1>7, <2>1
    <3>2. wire[i + 1].post < wire[j + 1].post
      BY <1>0, <3>1 DEF NewsInv
    <3> QED BY <1>7, <3>2
  <2>2. ASSUME NEW i \in Carried' PROVE wire'[i].post \in 1..sent' /\ \A n \in Met' : n < wire'[i].post
    <3>1. i + 1 \in Carried /\ wire'[i] = wire[i + 1] /\ 1 < i + 1
      BY <1>7
    <3>2. wire[i + 1].post \in 1..sent /\ (\A n \in Met : n < wire[i + 1].post) /\ wire[1].post < wire[i + 1].post
      BY <1>0, <1>1, <3>1 DEF NewsInv
    <3> QED BY <1>0, <1>2, <3>1, <3>2
  <2>3. ASSUME NEW i \in Heralds', NEW j \in Heralds' PROVE i = j
    <3>1. i + 1 = j + 1
      BY <1>0, <1>7 DEF NewsInv
    <3> QED BY <1>7, <3>1
  <2>4. Heralds' # {} => session' # "known"
    BY <1>0, <1>7 DEF NewsInv
  <2> QED BY <2>1, <2>2, <2>3, <2>4 DEF NewsInv
<1>9. TurnInv'
  <2> SUFFICES ASSUME NEW i \in Turning'
               PROVE  ~attached' /\ \A j \in Carried' \cup Heralds' \cup Turning' : j <= i
    BY DEF TurnInv
  <2>1. ~attached /\ \A j \in Carried \cup Heralds \cup Turning : j <= i + 1
    BY <1>0, <1>7 DEF TurnInv
  <2>2. \A j \in Carried' \cup Heralds' \cup Turning' : j + 1 <= i + 1 /\ j \in Nat /\ i \in Nat
    BY <1>7, <2>1
  <2>3. \A j \in Nat, k \in Nat : j + 1 <= k + 1 => j <= k
    OBVIOUS
  <2> QED BY <1>0, <2>1, <2>2, <2>3
<1>10. Followed => From = seq /\ From' = seq + 1
  BY <1>0, <1>1, <1>2 DEF From
<1>11. StreamInv'
  <2>1. \A n \in Met' : n <= sent'
    BY <1>0, <1>1, <1>2 DEF StreamInv, NewsInv
  <2>2. ASSUME Followed, NEW k \in seq + 2..Len(stream), NEW n \in Met' PROVE n < stream[k]
    <3>1. k \in seq + 1..Len(stream) /\ k \in 1..Len(stream) /\ seq + 1 < k
      BY <1>0, <2>2
    <3>2. CASE n \in Met
      BY <1>0, <1>10, <2>2, <3>1, <3>2 DEF StreamInv
    <3>3. CASE n = stream[seq + 1]
      BY <1>0, <1>1, <2>2, <3>1, <3>3 DEF StreamInv
    <3> QED BY <1>1, <1>2, <2>2, <3>2, <3>3
  <2>3. Followed => From' + 1 = seq + 2
    BY <1>0, <1>10
  <2> QED BY <1>0, <1>3, <2>1, <2>2, <2>3 DEF StreamInv
<1>12. LinkInv'
  <2>1. session # "fresh"
    <3>1. \A h \in Heralds : ~(h < 1)
      BY <1>4 DEF Heralds
    <3> QED BY <1>0, <1>1, <3>1 DEF LinkInv
  <2>2. ASSUME Followed, NEW i \in Carried'
        PROVE  /\ wire'[i].s \in seq + 2..Len(stream) /\ wire'[i].post = stream[wire'[i].s]
               /\ \A k \in seq + 2..wire'[i].s - 1 : \E j \in Carried' : j < i /\ wire'[j].s = k
    <3>1. i + 1 \in Carried /\ wire'[i] = wire[i + 1] /\ 1 < i + 1 /\ i \in Nat
      BY <1>7
    <3>2. /\ wire[i + 1].s \in seq + 1..Len(stream) /\ wire[i + 1].post = stream[wire[i + 1].s]
          /\ \A k \in seq + 1..wire[i + 1].s - 1 : \E j \in Carried : j < i + 1 /\ wire[j].s = k
      BY <1>0, <1>10, <2>2, <3>1 DEF LinkInv
    <3>3. wire[1].post < wire[i + 1].post
      BY <1>0, <1>1, <3>1 DEF NewsInv
    <3>4. wire[i + 1].s # seq + 1
      <4>1. stream[seq + 1] \in Nat
        BY <1>0, <1>1, <2>2, PostsType DEF Messages
      <4> QED BY <1>1, <2>2, <3>2, <3>3, <4>1
    <3>5. wire[i + 1].s \in seq + 2..Len(stream)
      BY <1>0, <3>2, <3>4
    <3>6. ASSUME NEW k \in seq + 2..wire[i + 1].s - 1 PROVE \E j \in Carried' : j < i /\ wire'[j].s = k
      <4>1. k \in seq + 1..wire[i + 1].s - 1 /\ k # seq + 1
        BY <1>0, <3>2, <3>6
      <4>2. PICK j \in Carried : j < i + 1 /\ wire[j].s = k
        BY <3>2, <4>1
      <4>3. j # 1
        BY <1>1, <2>2, <4>1, <4>2
      <4>4. j - 1 \in Carried' /\ wire'[j - 1].s = k /\ j - 1 < i
        BY <1>0, <1>7, <3>1, <4>2, <4>3
      <4> QED BY <4>4
    <3> QED BY <3>1, <3>2, <3>5, <3>6
  <2>3. ASSUME attached'
        PROVE  Followed /\ \A k \in seq + 2..Len(stream) : \E j \in Carried' : wire'[j].s = k
    <3>1. Followed /\ \A k \in seq + 1..Len(stream) : \E j \in Carried : wire[j].s = k
      BY <1>0, <1>10, <2>3 DEF LinkInv
    <3>2. ASSUME NEW k \in seq + 2..Len(stream) PROVE \E j \in Carried' : wire'[j].s = k
      <4>1. k \in seq + 1..Len(stream) /\ k # seq + 1
        BY <1>0, <3>2
      <4>2. PICK j \in Carried : wire[j].s = k
        BY <3>1, <4>1
      <4>3. j # 1
        BY <1>1, <3>1, <4>1, <4>2
      <4> QED BY <1>7, <4>2, <4>3
    <3> QED BY <3>1, <3>2
  <2>4. Followed => From' + 1 = seq + 2
    BY <1>0, <1>10
  <2>5. Followed' => \A i \in Carried' :
          /\ wire'[i].s \in From' + 1..Len(stream') /\ wire'[i].post = stream'[wire'[i].s]
          /\ \A k \in From' + 1..wire'[i].s - 1 : \E j \in Carried' : j < i /\ wire'[j].s = k
    BY <1>0, <1>3, <2>2, <2>4
  <2>6. attached' => Followed' /\ \A k \in From' + 1..Len(stream') : \E j \in Carried' : wire'[j].s = k
    BY <1>0, <1>3, <2>3, <2>4
  <2>7. session' # "fresh"
    BY <1>0, <2>1
  <2> QED BY <2>5, <2>6, <2>7 DEF LinkInv
<1> QED BY <1>8, <1>9, <1>11, <1>12

\* Nothing is dispatched before the client asked for a session, by any step.
LEMMA LoopStep ==
    ASSUME BridgeInv, GatewayTypeOK', [GatewayNext]_gatewayVars
    PROVE  LoopInv'
<1> DEFINE Nothing == Carried = {} /\ Heralds = {} /\ Turning = {}
           Early == {"hello", "resume", "identify", "cooling"}
           Late == {"backoff", "closing"}
<1> USE DEF serverVars, lineVars, clientVars
<1>0. /\ GatewayTypeOK /\ NewsInv /\ TurnInv
      /\ loop \in Early => ~attached /\ Nothing
      /\ loop \in Late => conn = "closed"
      /\ attached => conn = "open"
      /\ beat => loop \notin {"backoff", "hello"}
  BY DEF BridgeInv, GatewayTypeOK, DiscordTypeOK, ClientTypeOK, LoopInv
<1>g. ASSUME loop' \in Early => ~attached' /\ Nothing', loop' \in Late => conn' = "closed" PROVE LoopInv'
  BY <1>g DEF LoopInv
<1>a. ASSUME wire' = Tail(wire), wire # <<>>, Nothing PROVE Nothing'
  <2>1. wire \in Seq(Frames)
    BY <1>0 DEF GatewayTypeOK, DiscordTypeOK
  <2>2. /\ DOMAIN wire = 1..Len(wire) /\ DOMAIN wire' = 1..(Len(wire) - 1)
        /\ \A i \in 1..(Len(wire) - 1) : wire'[i] = wire[i+1] /\ i + 1 \in 1..Len(wire)
    BY <1>a, <2>1, FrameRead
  <2> QED BY <1>a, <2>2 DEF Carried, Heralds, Turning
<1>s. ASSUME wire' = wire, Nothing PROVE Nothing'
  BY <1>s DEF Carried, Heralds, Turning
<1>1. CASE Post
  <2>1. UNCHANGED <<loop, conn, attached>> /\ (~attached => wire' = wire)
    BY <1>1 DEF Post
  <2> QED BY <1>0, <1>s, <1>g, <2>1
<1>2. CASE UNCHANGED <<loop, wire, conn, attached>>
  BY <1>0, <1>2, <1>s, <1>g
<1>3. CASE loop' \in {"reading", "handling"}
  BY <1>3, <1>g
<1>4. ASSUME NEW end, Cut(end), UNCHANGED loop, end = "closed" \/ loop \notin Late PROVE LoopInv'
  <2>1. ~attached' /\ wire' \in {wire, <<>>} /\ conn' = end
    BY <1>4 DEF Cut
  <2>2. wire' = wire \/ wire' = <<>> \/ wire # <<>>
    BY <2>1
  <2>3. Nothing => Nothing'
    BY <2>1 DEF Carried, Heralds, Turning
  <2> QED BY <1>0, <1>4, <1>g, <2>1, <2>3
<1>5. CASE Lose \/ FallSilent
  BY <1>0, <1>4, <1>5 DEF Lose, FallSilent
<1>6. CASE HeartbeatCloses
  BY <1>4, <1>6 DEF HeartbeatCloses, Unacked
<1>7. CASE AskReconnect
  <2>1. attached /\ UNCHANGED <<loop, conn>>
    BY <1>7 DEF AskReconnect
  <2> QED BY <1>0, <1>g, <2>1
<1>8. CASE Invalidate
  <2>1. UNCHANGED <<loop, conn>> /\ ~attached' /\ (~attached => wire' = wire)
    BY <1>8 DEF Invalidate
  <2> QED BY <1>0, <1>s, <1>g, <2>1
<1>9. CASE Connect
  <2>1. wire' = <<Frame("hello")>> /\ UNCHANGED attached /\ loop = "backoff" /\ loop' = "hello"
    BY <1>9 DEF Connect
  <2>2. DOMAIN wire' = {1} /\ wire'[1].op = "hello"
    BY <2>1 DEF Frame
  <2>3. Nothing' /\ ~attached'
    BY <1>0, <2>1, <2>2 DEF Carried, Heralds, Turning
  <2> QED BY <1>g, <2>1, <2>3
<1>10. CASE Hello
  <2>1. loop = "hello" /\ loop' \in Early /\ wire' = Tail(wire) /\ wire # <<>> /\ UNCHANGED attached
    BY <1>10 DEF Hello, Arrives
  <2> QED BY <1>0, <1>a, <1>g, <2>1
<1>11. CASE Resume
  <2>1. loop' = "reading" \/ (loop' = "closing" /\ conn' = "closed")
    BY <1>11 DEF Resume, Unsent
  <2> QED BY <1>g, <2>1
<1>12. CASE Cool \/ CoolEnds
  <2>1. loop \in Early /\ loop' \in Early /\ UNCHANGED <<wire, attached>>
    BY <1>12 DEF Cool, CoolEnds
  <2> QED BY <1>0, <1>s, <1>g, <2>1
<1>13. CASE Identify
  <2>1. loop' = "reading" \/ (loop' = "closing" /\ conn' = "closed")
    BY <1>13 DEF Identify, Unsent
  <2> QED BY <1>g, <2>1
<1>14. CASE Notice \/ Close
  <2>1. loop' \in Late /\ conn' = "closed"
    BY <1>0, <1>14 DEF Notice, Close
  <2> QED BY <1>g, <2>1
<1>15. CASE ReadEvent \/ ReadReady \/ ReadResumed \/ ReadAck \/ ReadReconnect
  <2>1. loop' \in {"reading", "handling"}
    BY <1>15 DEF ReadEvent, ReadReady, ReadResumed, ReadAck, ReadReconnect, Read
  <2> QED BY <1>3, <2>1
<1>16. ASSUME NEW op \in {"invalid", "retry"}, Arrives(op), loop' \in Early, UNCHANGED attached
       PROVE  LoopInv'
  <2>1. NewsMoves(1) /\ 1 \in DOMAIN wire /\ wire[1].op = op
    BY <1>0, <1>16, TailMoves DEF Ops
  <2>2. 1 \in Turning /\ 1 \notin Carried /\ 1 \notin Heralds
    BY <1>16, <2>1 DEF Turning, Carried, Heralds
  <2>3. ~attached /\ \A j \in Carried \cup Heralds \cup Turning : j <= 1
    BY <1>0, <2>2 DEF TurnInv
  <2>4. \A j \in DOMAIN wire : j \in Nat /\ 1 <= j
    BY <1>0 DEF GatewayTypeOK, DiscordTypeOK
  <2>5. \A j \in Carried \cup Heralds \cup Turning : j = 1
    BY <2>3, <2>4 DEF Carried, Heralds, Turning
  <2>6. Carried = {} /\ Heralds = {}
    BY <2>2, <2>5
  <2>7. Carried' = {} /\ Heralds' = {}
    BY <2>1, <2>6 DEF NewsMoves
  <2>8. Turning' = {}
    <3>1. wire \in Seq(Frames) /\ wire # <<>> /\ wire' = Tail(wire)
      BY <1>0, <1>16 DEF GatewayTypeOK, DiscordTypeOK, Arrives
    <3>2. /\ DOMAIN wire = 1..Len(wire) /\ DOMAIN wire' = 1..(Len(wire) - 1) /\ Len(wire) \in Nat
          /\ \A i \in 1..(Len(wire) - 1) : wire'[i] = wire[i+1] /\ i + 1 \in 1..Len(wire)
      BY <3>1, FrameRead
    <3>3. \A i \in Turning' : i + 1 \in Turning /\ i + 1 # 1
      BY <3>2 DEF Turning
    <3> QED BY <2>5, <3>3
  <2> QED BY <1>16, <1>g, <2>3, <2>7, <2>8
<1>17. CASE ReadInvalid
  <2>1. Arrives("invalid") /\ loop' = "identify" /\ UNCHANGED attached
    BY <1>17 DEF ReadInvalid, Read
  <2> QED BY <1>16, <2>1
<1>18. CASE ReadRetry
  <2>1. Arrives("retry") /\ loop' \in Early /\ UNCHANGED attached
    BY <1>18 DEF ReadRetry, Read
  <2> QED BY <1>16, <2>1
<1>19. CASE Handle
  BY <1>3, <1>19 DEF Handle
<1>20. CASE Beat
  <2>1. UNCHANGED <<loop, conn, attached, session>> /\ wire' \in {wire, Append(wire, Frame("ack"))}
    BY <1>20 DEF Beat
  <2>2. CASE wire' = wire
    BY <1>2, <2>1, <2>2
  <2>3. CASE wire' = Append(wire, Frame("ack"))
    <3>1. /\ Carried' = Carried /\ Heralds' = Heralds /\ Turning' \subseteq Turning
      <4>1. Carried' = Carried /\ Heralds' = Heralds
        BY <1>0, <2>1, <2>3, AppendMoves DEF Ops
      <4>2. wire \in Seq(Frames) /\ Frame("ack") \in Frames /\ Frame("ack").op = "ack"
        BY <1>0, PostsType DEF GatewayTypeOK, DiscordTypeOK, Frame, Frames, Ops
      <4>3. /\ DOMAIN wire = 1..Len(wire) /\ DOMAIN wire' = 1..(Len(wire) + 1) /\ Len(wire) \in Nat
            /\ \A i \in 1..Len(wire) : wire'[i] = wire[i]
            /\ wire'[Len(wire) + 1].op = "ack"
        BY <2>3, <4>2, FrameArrives
      <4> QED BY <4>1, <4>3 DEF Turning
    <3> QED BY <1>0, <1>g, <2>1, <3>1
  <2> QED BY <2>1, <2>2, <2>3
<1>21. CASE GatewayRestart
  BY <1>21, <1>g DEF GatewayRestart
<1>22. Bind \/ CacheExpires \/ TaskMoves \/ Router \/ UNCHANGED gatewayVars
         => UNCHANGED <<loop, wire, conn, attached>>
  BY DEF Bind, CacheExpires, TaskMoves, Router, RouterOnly, Take, Route, ChooseTool, Redirect,
         SendFollowup, Trigger, gatewayVars
<1> QED
  BY <1>1, <1>2, <1>5, <1>6, <1>7, <1>8, <1>9, <1>10, <1>11, <1>12, <1>13, <1>14, <1>15, <1>17, <1>18,
     <1>19, <1>20, <1>21, <1>22
  DEF GatewayNext, Discord, Client

-----------------------------------------------------------------------------
(* The theorems.                                                           *)

\* The inductive invariant of the bridge holds at first.
LEMMA BridgeStart == GatewayInit => BridgeInv
<1> SUFFICES ASSUME GatewayInit PROVE BridgeInv
  OBVIOUS
<1> USE DEF GatewayInit
<1>0. MaxPosts \in Nat /\ MaxMishaps \in Nat /\ MaxIdentifies \in Nat
  BY PostsType, BoundsType
<1>1. GatewayTypeOK
  <2>1. DiscordTypeOK
    <3>1. attached \in BOOLEAN /\ ~attached
      OBVIOUS
    <3>2. /\ sent \in 0..MaxPosts /\ stream \in Seq(Messages) /\ wire \in Seq(Frames)
          /\ session = "none" /\ conn = "closed"
      BY <1>0
    <3> QED BY <3>1, <3>2 DEF DiscordTypeOK
  <2>2. ClientTypeOK
    <3>1. acked \in BOOLEAN /\ healthy \in BOOLEAN /\ beat \in BOOLEAN /\ ~beat
      OBVIOUS
    <3>2. /\ loop = "backoff" /\ sess = "none" /\ seq \in 0..NoSeq
          /\ identifies \in 0..MaxIdentifies /\ current = NoPost
      BY <1>0 DEF NoSeq
    <3> QED BY <3>1, <3>2 DEF ClientTypeOK
  <2>3. NoPost \notin Messages
    BY <1>0 DEF NoPost, Messages
  <2>4. RouterTypeOK
    <3>1. bound \in BOOLEAN
      OBVIOUS
    <3>2. /\ cache = "none" /\ queue \in Seq(Messages) /\ state = "pending" /\ router = Idle
          /\ answer \in [Messages -> Routed \cup {"none", "dropped", "ignored", "lost"}]
      OBVIOUS
    <3> QED BY <2>3, <3>1, <3>2 DEF RouterTypeOK, Idle, Stages, TaskStates
  <2> QED BY <1>0, <2>1, <2>2, <2>4 DEF GatewayTypeOK
<1>2. Carried = {} /\ Heralds = {} /\ Turning = {}
  BY DEF Carried, Heralds, Turning
<1>3. Met = {}
  BY <1>0 DEF Met, Held, Range, Idle, NoPost, Messages
<1>4. NewsInv /\ TurnInv /\ LoopInv
  BY <1>2 DEF NewsInv, TurnInv, LoopInv
<1>5. StreamInv
  BY <1>3 DEF StreamInv
<1>6. LinkInv
  BY <1>2 DEF LinkInv
<1> QED BY <1>1, <1>4, <1>5, <1>6 DEF BridgeInv

\* Every step keeps the types.
LEMMA BridgeTypeStep ==
    ASSUME BridgeInv, [GatewayNext]_gatewayVars
    PROVE  GatewayTypeOK'
<1>1. DiscordTypeOK' /\ ClientTypeOK' /\ RouterTypeOK'
  BY DiscordTypeStep, ClientTypeStep, RouterTypeStep DEF BridgeInv
<1>2. mishaps \in 0..MaxMishaps
  BY DEF BridgeInv, GatewayTypeOK
<1>3. mishaps' = mishaps \/ Mishap
  <2>1. Discord \/ UNCHANGED gatewayVars => mishaps' = mishaps \/ Mishap
    BY DEF Discord, Post, Bind, CacheExpires, TaskMoves, Lose, FallSilent, AskReconnect, Invalidate, gatewayVars
  <2>2. Connect \/ Hello \/ Resume \/ Cool \/ CoolEnds \/ Identify \/ Notice \/ Close => mishaps' = mishaps \/ Mishap
    BY DEF Connect, Hello, Resume, Cool, CoolEnds, Identify, Unsent, Notice, Close
  <2>3. ReadEvent \/ ReadReady \/ ReadResumed \/ ReadAck \/ ReadReconnect \/ ReadInvalid \/ ReadRetry
          => mishaps' = mishaps \/ Mishap
    BY DEF ReadEvent, ReadReady, ReadResumed, ReadAck, ReadReconnect, ReadInvalid, ReadRetry
  <2>4. Handle \/ Beat \/ HeartbeatCloses \/ GatewayRestart => mishaps' = mishaps \/ Mishap
    BY DEF Handle, WiredLookup, Beat, HeartbeatCloses, Timely, GatewayRestart
  <2>5. Router => mishaps' = mishaps \/ Mishap
    BY DEF Router, Take, Route, ChooseTool, Redirect, SendFollowup, Trigger
  <2> QED BY <2>1, <2>2, <2>3, <2>4, <2>5 DEF GatewayNext, Client
<1>4. mishaps' \in 0..MaxMishaps
  BY <1>2, <1>3, MishapTyped
<1> QED BY <1>1, <1>4 DEF GatewayTypeOK

\* Every step keeps the inductive invariant.
LEMMA BridgeStep == BridgeInv /\ [GatewayNext]_gatewayVars => BridgeInv'
<1> SUFFICES ASSUME BridgeInv, [GatewayNext]_gatewayVars PROVE BridgeInv'
  OBVIOUS
<1>1. GatewayTypeOK'
  BY BridgeTypeStep
<1>2. LoopInv'
  BY <1>1, LoopStep
<1>3. NewsInv' /\ TurnInv' /\ StreamInv' /\ LinkInv'
  BY <1>1, PostStep, IdentifyStep, ResumeStep, ReadEventStep, QuietStep
<1> QED BY <1>1, <1>2, <1>3 DEF BridgeInv

\* What is on its way to the client agrees, over every reconnect, replay and refusal,
\* with what Discord dispatched and what the client has seen: no gap, no repetition.
THEOREM BridgeInvariance == GatewaySpec => []BridgeInv
BY BridgeStart, BridgeStep, PTL DEF GatewaySpec

\* Every variable of the Gateway client and of the router keeps its type: a session
\* the client would resume is Discord's, and its sequence number is one of it.
THEOREM GatewayTypeCorrect == GatewaySpec => []GatewayTypeOK
<1>1. BridgeInv => GatewayTypeOK
  BY DEF BridgeInv
<1> QED BY <1>1, BridgeInvariance, PTL

-----------------------------------------------------------------------------
\* What is on its way is in order, and newer than what was routed.
OrderInv ==
    /\ \A i, j \in DOMAIN queue : i < j => queue[i] < queue[j]
    /\ \A i \in DOMAIN queue : router.post < queue[i]
    /\ current # NoPost => router.post < current /\ \A i \in DOMAIN queue : queue[i] < current
    /\ \A n \in Messages : answer[n] \in Routed =>
          /\ \A i \in DOMAIN queue : n < queue[i]
          /\ router.post # NoPost => n < router.post
          /\ current # NoPost => n < current

\* Every step keeps the order of what is on its way.
LEMMA OrderStep ==
    ASSUME BridgeInv, OrderInv, [GatewayNext]_gatewayVars
    PROVE  OrderInv'
<1>0. /\ GatewayTypeOK /\ NewsInv
      /\ queue \in Seq(Messages) /\ DOMAIN queue = 1..Len(queue) /\ Len(queue) \in Nat
      /\ router \in [at : Stages, post : Messages \cup {NoPost}]
      /\ (router.post = NoPost <=> router.at = "idle")
      /\ answer \in [Messages -> Routed \cup {"none", "dropped", "ignored", "lost"}]
      /\ (current # NoPost <=> loop = "handling") /\ current \in Messages \cup {NoPost}
      /\ \A n \in Messages : n \in Nat /\ NoPost < n
      /\ NoPost \notin Messages /\ NoPost = 0
  BY PostsType DEF BridgeInv, GatewayTypeOK, RouterTypeOK, ClientTypeOK, NoPost, Messages
<1>1. CASE UNCHANGED <<current, queue, router, answer>>
  BY <1>1 DEF OrderInv
<1>2. CASE ReadEvent
  <2>1. Head(wire) = wire[1] /\ 1 \in Carried /\ wire[1].post \in Messages
    BY <1>2, FirstEvent DEF BridgeInv, ReadEvent
  <2>2. current' = wire[1].post /\ UNCHANGED <<queue, router, answer>>
    BY <1>2, <2>1 DEF ReadEvent, routerVars
  <2>3. \A n \in Met : n < wire[1].post
    BY <1>0, <2>1 DEF NewsInv
  <2>4. /\ \A i \in DOMAIN queue : queue[i] \in Met
        /\ router.post # NoPost => router.post \in Met
        /\ \A n \in Messages : answer[n] \in Routed => n \in Met
    BY <1>0 DEF Met, Held, Range, Routed
  <2> QED BY <1>0, <2>1, <2>2, <2>3, <2>4 DEF OrderInv
<1>3. CASE Handle
  <2>1. /\ current \in Messages /\ current # NoPost /\ current' = NoPost /\ UNCHANGED router
        /\ \/ queue' = Append(queue, current) /\ UNCHANGED answer
           \/ UNCHANGED queue /\ answer' = [answer EXCEPT ![current] = "dropped"]
    BY <1>0, <1>3 DEF Handle
  <2>2. CASE queue' = Append(queue, current) /\ UNCHANGED answer
    <3>1. /\ DOMAIN queue' = 1..(Len(queue) + 1)
          /\ \A i \in 1..Len(queue) : queue'[i] = queue[i]
          /\ queue'[Len(queue) + 1] = current
      BY <1>0, <2>1, <2>2, FrameArrives
    <3>2. \A i \in DOMAIN queue' : i \in DOMAIN queue \/ i = Len(queue) + 1
      BY <1>0, <3>1
    <3>3. \A i \in DOMAIN queue : queue'[i] = queue[i] /\ queue[i] < current /\ ~(Len(queue) + 1 < i)
      BY <1>0, <2>1, <3>1 DEF OrderInv
    <3>4. \A i, j \in DOMAIN queue' : i < j => queue'[i] < queue'[j]
      BY <1>0, <3>1, <3>2, <3>3 DEF OrderInv
    <3>5. \A i \in DOMAIN queue' : router'.post < queue'[i]
      BY <2>1, <3>1, <3>2, <3>3 DEF OrderInv
    <3>6. \A n \in Messages : answer'[n] \in Routed =>
            /\ \A i \in DOMAIN queue' : n < queue'[i]
            /\ router'.post # NoPost => n < router'.post
      BY <2>1, <2>2, <3>1, <3>2, <3>3 DEF OrderInv
    <3> QED BY <2>1, <3>4, <3>5, <3>6 DEF OrderInv
  <2>3. CASE UNCHANGED queue /\ answer' = [answer EXCEPT ![current] = "dropped"]
    <3>1. \A n \in Messages : answer'[n] \in Routed => answer[n] \in Routed
      BY <1>0, <2>1, <2>3 DEF Routed
    <3> QED BY <2>1, <2>3, <3>1 DEF OrderInv
  <2> QED BY <2>1, <2>2, <2>3
<1>4. CASE Take
  <2>1. /\ queue # <<>> /\ router.post = NoPost /\ router'.post = Head(queue) /\ queue' = Tail(queue)
        /\ UNCHANGED <<answer, current>>
    BY <1>0, <1>4 DEF Take, At, RouterOnly, clientVars
  <2>2. /\ Head(queue) = queue[1] /\ 1 \in DOMAIN queue /\ DOMAIN queue' = 1..(Len(queue) - 1)
        /\ \A i \in 1..(Len(queue) - 1) : queue'[i] = queue[i+1] /\ i + 1 \in DOMAIN queue
    BY <1>0, <2>1, FrameRead
  <2>3. \A i \in DOMAIN queue' : queue'[i] = queue[i+1] /\ i + 1 \in DOMAIN queue /\ 1 < i + 1
    BY <2>2
  <2>4. \A i, j \in DOMAIN queue' : i < j => i + 1 < j + 1
    BY <1>0, <2>2
  <2>5. \A i, j \in DOMAIN queue' : i < j => queue'[i] < queue'[j]
    BY <2>3, <2>4 DEF OrderInv
  <2>6. \A i \in DOMAIN queue' : router'.post < queue'[i]
    BY <2>1, <2>2, <2>3 DEF OrderInv
  <2>7. current # NoPost => router'.post < current /\ \A i \in DOMAIN queue' : queue'[i] < current
    BY <2>1, <2>2, <2>3 DEF OrderInv
  <2>8. \A n \in Messages : answer[n] \in Routed =>
          (\A i \in DOMAIN queue' : n < queue'[i]) /\ n < router'.post /\ (current # NoPost => n < current)
    BY <2>1, <2>2, <2>3 DEF OrderInv
  <2> QED BY <2>1, <2>5, <2>6, <2>7, <2>8 DEF OrderInv
<1>5. CASE UNCHANGED <<current, queue>> /\ router'.post = router.post /\ UNCHANGED answer
  BY <1>5 DEF OrderInv
<1>6. ASSUME UNCHANGED <<current, queue>>, ~At("idle"), NEW what, Done(what)
      PROVE  OrderInv'
  <2>1. /\ router.post \in Messages /\ router'.post = NoPost
        /\ \A n \in Messages : answer'[n] = answer[n] \/ n = router.post
    BY <1>0, <1>6 DEF At, Done, Idle
  <2>2. \A i \in DOMAIN queue : queue[i] \in Messages
    BY <1>0
  <2>3. /\ \A i \in DOMAIN queue : NoPost < queue[i]
        /\ current # NoPost => NoPost < current
    BY <1>0, <2>2
  <2>4. \A n \in Messages : answer'[n] \in Routed =>
          (\A i \in DOMAIN queue : n < queue[i]) /\ (current # NoPost => n < current)
    BY <2>1 DEF OrderInv
  <2> QED BY <1>6, <2>1, <2>3, <2>4 DEF OrderInv
<1>7. CASE Route \/ ChooseTool \/ Redirect \/ SendFollowup \/ Trigger
  <2>1. UNCHANGED <<current, queue>> /\ ~At("idle")
    BY <1>7 DEF Route, ChooseTool, Redirect, SendFollowup, Trigger, RouterOnly, clientVars, At
  <2>2. (\E place \in Stages : Goes(place) /\ UNCHANGED answer) \/ (\E what : Done(what))
    <3>1. CASE Route
      BY <3>1 DEF Route, Stages
    <3>2. CASE ChooseTool
      BY <3>2 DEF ChooseTool, Stages
    <3>3. CASE Redirect
      BY <3>3 DEF Redirect, Stages
    <3>4. CASE SendFollowup
      BY <3>4 DEF SendFollowup, Stages
    <3>5. CASE Trigger
      BY <3>5 DEF Trigger
    <3> QED BY <1>7, <3>1, <3>2, <3>3, <3>4, <3>5
  <2>3. ASSUME NEW place \in Stages, Goes(place) PROVE router'.post = router.post
    BY <1>0, <2>3 DEF Goes
  <2> QED BY <1>5, <1>6, <2>1, <2>2, <2>3
<1>8. CASE GatewayRestart
  <2>1. /\ current' = NoPost /\ router'.post = NoPost /\ queue' = <<>>
    BY <1>8 DEF GatewayRestart, Idle
  <2>2. DOMAIN queue' = {}
    BY <2>1
  <2> QED BY <2>1, <2>2 DEF OrderInv
<1>9. Post \/ Bind \/ CacheExpires \/ TaskMoves \/ Lose \/ FallSilent \/ AskReconnect \/ Invalidate
         \/ Beat \/ HeartbeatCloses \/ UNCHANGED gatewayVars
         => UNCHANGED <<current, queue, router, answer>>
  BY DEF Post, Bind, CacheExpires, TaskMoves, Lose, FallSilent, AskReconnect, Invalidate, Beat,
         HeartbeatCloses, Unacked, clientVars, routerVars, gatewayVars
<1>10. Connect \/ Hello \/ Resume \/ Cool \/ CoolEnds \/ Identify \/ Notice \/ Close
         => UNCHANGED <<current, queue, router, answer>>
  BY DEF Connect, Hello, Resume, Cool, CoolEnds, Identify, Notice, Close, routerVars
<1>11. ReadReady \/ ReadResumed \/ ReadAck \/ ReadReconnect \/ ReadInvalid \/ ReadRetry
         => UNCHANGED <<current, queue, router, answer>>
  BY DEF ReadReady, ReadResumed, ReadAck, ReadReconnect, ReadInvalid, ReadRetry, routerVars
<1> QED
  BY <1>1, <1>2, <1>3, <1>4, <1>7, <1>8, <1>9, <1>10, <1>11
  DEF GatewayNext, Discord, Client, Router

\* That order, place by place, is the property that the runs check.
LEMMA OrderIsKept ==
    ASSUME GatewayTypeOK, OrderInv
    PROVE  InOrderOnce
<1> DEFINE L == Len(queue)
<1>0. queue \in Seq(Messages) /\ L \in Nat /\ DOMAIN queue = 1..L
      /\ router.post \in Messages \cup {NoPost} /\ current \in Messages \cup {NoPost}
  BY DEF GatewayTypeOK, RouterTypeOK, ClientTypeOK
<1>1. /\ Path \in Seq(Messages \cup {NoPost}) /\ DOMAIN Path = 1..L + 2
      /\ Path[1] = router.post /\ Path[L + 2] = current
      /\ \A i \in 2..L + 1 : Path[i] = queue[i - 1] /\ i - 1 \in DOMAIN queue
  <2>1. /\ <<router.post>> \in Seq(Messages \cup {NoPost}) /\ queue \in Seq(Messages \cup {NoPost})
        /\ <<current>> \in Seq(Messages \cup {NoPost})
    BY <1>0
  <2> DEFINE front == <<router.post>> \o queue
  <2>2. /\ front \in Seq(Messages \cup {NoPost}) /\ Len(front) = L + 1
        /\ \A i \in 1..L + 1 : front[i] = IF i <= 1 THEN router.post ELSE queue[i - 1]
    BY <1>0, <2>1
  <2> HIDE DEF front
  <2>3. /\ front \o <<current>> \in Seq(Messages \cup {NoPost}) /\ Len(front \o <<current>>) = L + 2
        /\ \A i \in 1..L + 2 : (front \o <<current>>)[i] = IF i <= L + 1 THEN front[i] ELSE current
    BY <1>0, <2>1, <2>2
  <2>4. Path = front \o <<current>>
    BY DEF Path, front
  <2>5. Path \in Seq(Messages \cup {NoPost}) /\ DOMAIN Path = 1..L + 2
    BY <2>3, <2>4
  <2>6. /\ 1 \in 1..L + 1 /\ 1 \in 1..L + 2 /\ 1 <= L + 1 /\ L + 2 \in 1..L + 2 /\ ~(L + 2 <= L + 1)
        /\ \A i \in 2..L + 1 : i \in 1..L + 2 /\ i \in 1..L + 1 /\ ~(i <= 1) /\ i - 1 \in 1..L
    BY <1>0
  <2>7. Path[1] = router.post /\ Path[L + 2] = current
    BY <2>2, <2>3, <2>4, <2>6
  <2>8. \A i \in 2..L + 1 : Path[i] = queue[i - 1] /\ i - 1 \in DOMAIN queue
    BY <1>0, <2>2, <2>3, <2>4, <2>6
  <2> QED BY <2>5, <2>7, <2>8
<1> HIDE DEF L
<1>2. \A i \in 1..L + 2 : i = 1 \/ i \in 2..L + 1 \/ i = L + 2
  BY <1>0
<1>3. ASSUME NEW i \in DOMAIN Path, NEW j \in DOMAIN Path, OnPath(i), OnPath(j), i < j
      PROVE  Path[i] < Path[j]
  <2>1. i # L + 2 /\ j # 1
    BY <1>0, <1>1, <1>3
  <2>2. Path[i] # NoPost /\ Path[j] # NoPost
    BY <1>3 DEF OnPath
  <2>3. CASE i = 1 /\ j \in 2..L + 1
    BY <1>1, <2>3 DEF OrderInv
  <2>4. CASE i = 1 /\ j = L + 2
    BY <1>1, <2>2, <2>4 DEF OrderInv
  <2>5. CASE i \in 2..L + 1 /\ j \in 2..L + 1
    <3>1. i - 1 < j - 1
      BY <1>0, <1>3, <2>5
    <3> QED BY <1>1, <2>5, <3>1 DEF OrderInv
  <2>6. CASE i \in 2..L + 1 /\ j = L + 2
    BY <1>1, <2>2, <2>6 DEF OrderInv
  <2> QED BY <1>1, <1>2, <2>1, <2>3, <2>4, <2>5, <2>6
<1>4. ASSUME NEW i \in DOMAIN Path, NEW n \in Messages, OnPath(i), answer[n] \in Routed
      PROVE  n < Path[i]
  <2>1. Path[i] # NoPost
    BY <1>4 DEF OnPath
  <2>2. CASE i = 1
    BY <1>1, <1>4, <2>1, <2>2 DEF OrderInv
  <2>3. CASE i \in 2..L + 1
    BY <1>1, <1>4, <2>3 DEF OrderInv
  <2>4. CASE i = L + 2
    BY <1>1, <1>4, <2>1, <2>4 DEF OrderInv
  <2> QED BY <1>1, <1>2, <2>2, <2>3, <2>4
<1> QED BY <1>3, <1>4 DEF InOrderOnce

\* The session's messages up to the client's sequence number were handed on.
SeenInv == sess = "live" => \A i \in 1..seq : stream[i] \in Met

\* Every step keeps the account of what the sequence number stands for.
LEMMA SeenStep ==
    ASSUME BridgeInv, SeenInv, [GatewayNext]_gatewayVars
    PROVE  SeenInv'
<1> USE DEF serverVars, sessionVars
<1>0. /\ GatewayTypeOK /\ StreamInv /\ NewsInv /\ LinkInv
      /\ seq \in Nat /\ stream \in Seq(Messages) /\ Len(stream) \in Nat
      /\ sess = "live" => session = "known" /\ seq <= Len(stream)
  BY PostsType DEF BridgeInv, GatewayTypeOK, ClientTypeOK, DiscordTypeOK, NoSeq
<1>1. ~ReadEvent => Met' = Met
  BY <1>0, MetStays
<1>2. CASE UNCHANGED <<stream, sess, seq>> /\ ~ReadEvent
  BY <1>1, <1>2 DEF SeenInv
<1>3. CASE sess' # "live"
  BY <1>3 DEF SeenInv
<1>4. CASE Post
  <2>1. ~ReadEvent /\ UNCHANGED <<sess, seq>>
    BY <1>4, <1>0 DEF Post, ReadEvent, clientVars, GatewayTypeOK, DiscordTypeOK
  <2>2. ASSUME sess = "live", NEW i \in 1..seq PROVE stream'[i] = stream[i]
    <3>1. stream' = Append(stream, sent + 1) /\ i \in 1..Len(stream) /\ sent + 1 \in Messages
      BY <1>0, <1>4, <2>2, PostsType DEF Post, GatewayTypeOK, DiscordTypeOK, Messages
    <3> QED BY <1>0, <3>1
  <2> QED BY <1>1, <2>1, <2>2 DEF SeenInv
<1>5. CASE ReadEvent
  <2>1. /\ Head(wire) = wire[1] /\ wire[1].post \in Messages
        /\ Followed => wire[1].s = seq + 1 /\ wire[1].post = stream[seq + 1]
    BY <1>0, <1>5, FirstEvent DEF ReadEvent
  <2>2. Met' = Met \cup {wire[1].post} /\ seq' = wire[1].s /\ UNCHANGED <<stream, sess>>
    BY <1>0, <1>5, <2>1, MetGrows DEF ReadEvent
  <2>3. ASSUME sess = "live", NEW i \in 1..seq + 1 PROVE stream[i] \in Met'
    <3>1. i \in 1..seq \/ i = seq + 1
      BY <1>0
    <3> QED BY <2>1, <2>2, <2>3, <3>1 DEF SeenInv, Followed
  <2>4. sess = "live" => seq' = seq + 1
    BY <2>1, <2>2 DEF Followed
  <2> QED BY <2>2, <2>3, <2>4 DEF SeenInv
<1>6. CASE Identify
  <2>1. ~ReadEvent
    BY <1>6 DEF Identify, ReadEvent, Read
  <2>2. sess' # "live" \/ UNCHANGED <<stream, sess, seq>>
    BY <1>6 DEF Identify, Unsent, Gone
  <2> QED BY <1>2, <1>3, <2>1, <2>2
<1>7. CASE ReadReady
  <2>1. seq' = 0
    BY <1>7 DEF ReadReady
  <2> QED BY <2>1 DEF SeenInv
<1>8. CASE Invalidate \/ ReadInvalid \/ GatewayRestart
  BY <1>3, <1>8 DEF Invalidate, ReadInvalid, GatewayRestart, Gone
<1>9. CASE ReadReconnect
  <2>1. ~ReadEvent
    BY <1>9, <1>0 DEF ReadReconnect, ReadEvent, Read, Arrives
  <2>2. sess' # "live" \/ UNCHANGED <<stream, sess, seq>>
    BY <1>9 DEF ReadReconnect, Gone
  <2> QED BY <1>2, <1>3, <2>1, <2>2
<1>10. Bind \/ CacheExpires \/ TaskMoves \/ Lose \/ FallSilent \/ AskReconnect \/ Beat \/ HeartbeatCloses
         \/ Router \/ UNCHANGED gatewayVars => UNCHANGED <<stream, sess, seq>>
  BY DEF Bind, CacheExpires, TaskMoves, Lose, FallSilent, AskReconnect, Beat, HeartbeatCloses, Unacked,
         Router, RouterOnly, Take, Route, ChooseTool, Redirect, SendFollowup, Trigger, gatewayVars, clientVars
<1>11. Connect \/ Hello \/ Resume \/ Cool \/ CoolEnds \/ Notice \/ Close \/ ReadResumed \/ ReadAck
         \/ ReadRetry \/ Handle => UNCHANGED <<stream, sess, seq>>
  BY DEF Connect, Hello, Resume, Unsent, Cool, CoolEnds, Notice, Close, ReadResumed, ReadAck, ReadRetry, Handle
<1> QED
  BY <1>2, <1>4, <1>5, <1>6, <1>7, <1>8, <1>9, <1>10, <1>11
  DEF GatewayNext, Discord, Client

\* Whatever connections, sessions and lookups fail, and in whatever order: a message
\* of a session is taken to the router exactly once, in the order of the posts, and
\* none that the sequence number says was received is missing.
THEOREM RoutedInOrder == GatewaySpec => []ExactlyOnceInOrder
<1> DEFINE Inv == BridgeInv /\ OrderInv /\ SeenInv
<1>1. GatewayInit => Inv
  <2> SUFFICES ASSUME GatewayInit PROVE OrderInv /\ SeenInv
    BY BridgeStart
  <2> QED BY DEF GatewayInit, OrderInv, SeenInv, Routed, Idle
<1>2. Inv /\ [GatewayNext]_gatewayVars => Inv'
  BY BridgeStep, OrderStep, SeenStep
<1>3. Inv => ExactlyOnceInOrder
  <2> SUFFICES ASSUME Inv PROVE InOrderOnce /\ NoGap
    BY DEF ExactlyOnceInOrder
  <2>1. InOrderOnce
    BY OrderIsKept DEF BridgeInv
  <2>2. NoGap
    BY DEF NoGap, SeenInv, Met
  <2> QED BY <2>1, <2>2
<1> QED BY <1>1, <1>2, <1>3, PTL DEF GatewaySpec
===============================================================================
