------------------------ MODULE PluginAndRequestsProofs ------------------------
(*****************************************************************************)
(* The two machines that pace the work, for any values of their constants.   *)
(*                                                                           *)
(* PluginSync: for any number of connected folders an operation runs only on *)
(* an open state DB, an accepted edit is not forgotten, after an unload      *)
(* nothing stays open, and until then the periodic sync runs as it is asked. *)
(*                                                                           *)
(* NotionRequests: for any number of calls, slots, retries and any interval  *)
(* no more calls at once than slots, nothing applied twice, and each request *)
(* in its place of the schedule and after the quiet a rejection asked for.   *)
(*****************************************************************************)
EXTENDS PluginSync, NotionRequests, SequenceTheorems, FiniteSetTheorems, TLAPS

(* PluginSync.                                                               *)

(* A job that is under way is the first.                                     *)
OneUnderWay == \A i \in 2..Len(jobs) : jobs[i].do \notin {"shut", "make"}

(* A controller stands on an open DB, and so does one that is being made; of *)
(* an engine that is being closed there is none, and nothing waits for it.   *)
StandsOnBase ==
    /\ \A e \in ready : base[e] = "open"
    /\ \A e \in Engines : Now("make", e) => base[e] = "open"
    /\ \A e \in Engines : Now("shut", e) => e \notin ready
    /\ accepted \subseteq ready /\ again \subseteq ready

(* After onunload each engine is closed by a job to come and not opened after*)
(* that, or it is closed and not opened any more.                            *)
Opens(i, e) == jobs[i].of = e /\ jobs[i].do \in {"open", "make"}
Closes(i, e) == jobs[i].of = e /\ jobs[i].do \in {"close", "shut"}
Closed(e) == e \notin ready /\ ~Busy(e) /\ base[e] # "open"
ClosedInTheEnd(e) ==
    \/ \E i \in 1..Len(jobs) : Closes(i, e) /\ \A j \in 1..Len(jobs) : j > i => ~Opens(j, e)
    \/ Closed(e) /\ \A j \in 1..Len(jobs) : ~Opens(j, e)
UnloadGoesOn == unloaded => \A e \in Engines : ClosedInTheEnd(e)

PluginInv ==
    /\ PluginTypeOK /\ OneUnderWay /\ StandsOnBase
    /\ RunsOnOpenBase /\ AcceptedEditIsComing /\ UnloadGoesOn
--------------------------------------------------------------------------------
LEMMA Lists ==
    /\ folders \in Seq(Range(folders)) /\ Len(folders) \in Nat
    /\ DOMAIN folders = 1..Len(folders)
    /\ \A do \in {"close", "open"} :
          /\ Each(do) \in Seq(Jobs) /\ Len(Each(do)) = Len(folders)
          /\ \A i \in 1..Len(folders) : Each(do)[i].do = do /\ Each(do)[i].of = folders[i]
<1>1. folders \in Seq(Range(folders))
  BY PluginAssumption
<1>2. Len(folders) \in Nat /\ DOMAIN folders = 1..Len(folders)
  BY <1>1, LenProperties
<1>3. ASSUME NEW do \in {"close", "open"}
      PROVE  /\ Each(do) \in Seq(Jobs) /\ Len(Each(do)) = Len(folders)
             /\ \A i \in 1..Len(folders) : Each(do)[i].do = do /\ Each(do)[i].of = folders[i]
  <2>1. Each(do) = [i \in 1..Len(folders) |-> [do |-> do, of |-> folders[i]]]
    BY <1>2 DEF Each
  <2>2. \A i \in 1..Len(folders) : [do |-> do, of |-> folders[i]] \in Jobs
    BY <1>2, <1>3 DEF Jobs, Engines, Range
  <2>3. Each(do) \in Seq(Jobs)
    BY <1>2, <2>1, <2>2
  <2> QED BY <1>2, <2>1, <2>3
<1> QED BY <1>1, <1>2, <1>3

LEMMA OneJob ==
    ASSUME NEW do \in {"close", "shut", "open", "make", "timers"}, NEW e \in Engines
    PROVE  /\ Job(do, e) \in Seq(Jobs) /\ Len(Job(do, e)) = 1
           /\ Job(do, e)[1].do = do /\ Job(do, e)[1].of = e
BY DEF Job, Jobs

(* What is chained is to be opened or closed later; none of it is under way. *)
ForLater(s) == s \in Seq(Jobs) /\ \A i \in 1..Len(s) : s[i].do \in {"close", "open", "timers"}

LEMMA LaterJoined ==
    ASSUME NEW s, NEW t, ForLater(s), ForLater(t)
    PROVE  ForLater(s \o t)
<1>1. /\ s \o t \in Seq(Jobs) /\ Len(s \o t) = Len(s) + Len(t)
      /\ \A i \in 1..Len(s) + Len(t) : (s \o t)[i] = IF i <= Len(s) THEN s[i] ELSE t[i - Len(s)]
  BY ConcatProperties DEF ForLater
<1>2. Len(s) \in Nat /\ Len(t) \in Nat
  BY DEF ForLater
<1> QED BY <1>1, <1>2 DEF ForLater

LEMMA LaterParts ==
    /\ \A do \in {"close", "open", "timers"} : ForLater(Job(do, primary))
    /\ \A do \in {"close", "open"} : ForLater(Each(do))
<1>1. ASSUME NEW do \in {"close", "open", "timers"}
      PROVE  ForLater(Job(do, primary))
  <2>1. /\ Job(do, primary) \in Seq(Jobs) /\ Len(Job(do, primary)) = 1
        /\ Job(do, primary)[1].do = do
    BY <1>1, OneJob DEF Engines
  <2> QED BY <1>1, <2>1 DEF ForLater
<1>2. ASSUME NEW do \in {"close", "open"}
      PROVE  ForLater(Each(do))
  <2>1. /\ Each(do) \in Seq(Jobs) /\ Len(Each(do)) = Len(folders)
        /\ \A i \in 1..Len(folders) : Each(do)[i].do = do /\ Each(do)[i].of = folders[i]
    BY <1>2, Lists
  <2> QED BY <1>2, <2>1 DEF ForLater
<1> QED BY <1>1, <1>2

LEMMA InitJobsLater == ForLater(InitJobs)
BY LaterParts, LaterJoined DEF InitJobs

LEMMA UnloadJobsLater ==
    /\ ForLater(UnloadJobs)
    /\ \A i \in 1..Len(UnloadJobs) : UnloadJobs[i].do = "close"
    /\ \A e \in Engines : \E i \in 1..Len(UnloadJobs) : UnloadJobs[i].of = e
<1>1. ForLater(UnloadJobs)
  BY LaterParts, LaterJoined DEF UnloadJobs
<1>2. /\ Each("close") \in Seq(Jobs) /\ Len(Each("close")) = Len(folders) /\ Len(folders) \in Nat
      /\ \A i \in 1..Len(folders) : Each("close")[i].do = "close" /\ Each("close")[i].of = folders[i]
  BY Lists
<1>3. /\ Job("close", primary) \in Seq(Jobs) /\ Len(Job("close", primary)) = 1
      /\ Job("close", primary)[1].do = "close" /\ Job("close", primary)[1].of = primary
  BY OneJob DEF Engines
<1>4. /\ Len(UnloadJobs) = Len(folders) + 1
      /\ \A i \in 1..Len(folders) + 1 : UnloadJobs[i] =
            IF i <= Len(folders) THEN Each("close")[i] ELSE Job("close", primary)[i - Len(folders)]
  <2> DEFINE s == Each("close")
             t == Job("close", primary)
  <2>1. s \in Seq(Jobs) /\ t \in Seq(Jobs) /\ Len(s) = Len(folders) /\ Len(t) = 1
    BY <1>2, <1>3
  <2>2. UnloadJobs = s \o t
    BY DEF UnloadJobs
  <2> HIDE DEF s, t
  <2>3. /\ Len(s \o t) = Len(s) + Len(t)
        /\ \A i \in 1..Len(s) + Len(t) : (s \o t)[i] = IF i <= Len(s) THEN s[i] ELSE t[i - Len(s)]
    BY <2>1, ConcatProperties
  <2>4. /\ Len(UnloadJobs) = Len(folders) + 1
        /\ \A i \in 1..Len(folders) + 1 : UnloadJobs[i] =
              IF i <= Len(folders) THEN s[i] ELSE t[i - Len(folders)]
    BY <1>2, <2>1, <2>2, <2>3
  <2> QED BY <2>4 DEF s, t
<1>5. /\ \A i \in 1..Len(folders) : UnloadJobs[i].do = "close" /\ UnloadJobs[i].of = folders[i]
      /\ UnloadJobs[Len(folders) + 1].do = "close" /\ UnloadJobs[Len(folders) + 1].of = primary
  BY <1>2, <1>3, <1>4
<1>6. ASSUME NEW e \in Engines
      PROVE  \E i \in 1..Len(UnloadJobs) : UnloadJobs[i].of = e
  <2>1. CASE e = primary
    BY <1>2, <1>4, <1>5, <2>1
  <2>2. CASE e \in Range(folders)
    <3>1. PICK i \in 1..Len(folders) : e = folders[i]
      BY <2>2, Lists DEF Range
    <3> QED BY <1>2, <1>4, <1>5, <3>1
  <2> QED BY <2>1, <2>2 DEF Engines
<1> QED BY <1>1, <1>2, <1>4, <1>5, <1>6
--------------------------------------------------------------------------------
(* How the chain moves.                                                      *)

LEMMA NowIs ==
    ASSUME jobs \in Seq(Jobs), NEW do, NEW e, Now(do, e)
    PROVE  /\ jobs # <<>> /\ Len(jobs) \in Nat /\ Len(jobs) >= 1
           /\ jobs[1].do = do /\ jobs[1].of = e
<1>1. Len(jobs) \in Nat \ {0}
  BY EmptySeq, LenProperties DEF Now
<1> QED BY <1>1 DEF Now

LEMMA TheNextJob ==
    ASSUME jobs \in Seq(Jobs), OneUnderWay, jobs # <<>>, jobs' = Tail(jobs)
    PROVE  /\ jobs' \in Seq(Jobs) /\ OneUnderWay'
           /\ Len(jobs) \in Nat \ {0} /\ Len(jobs') = Len(jobs) - 1
           /\ \A i \in 1..Len(jobs') : jobs'[i] = jobs[i + 1]
           /\ \A e : ~Now("shut", e)' /\ ~Now("make", e)'
<1>1. /\ jobs' \in Seq(Jobs) /\ Len(jobs') = Len(jobs) - 1
      /\ \A i \in 1..Len(jobs') : jobs'[i] = jobs[i + 1]
  BY HeadTailProperties
<1>2. Len(jobs) \in Nat \ {0}
  BY EmptySeq
<1>3. \A i \in 1..Len(jobs') : jobs'[i].do \notin {"shut", "make"}
  BY <1>1, <1>2 DEF OneUnderWay
<1>4. OneUnderWay'
  BY <1>3, <1>2, <1>1 DEF OneUnderWay
<1>5. ASSUME NEW e, Now("shut", e)' \/ Now("make", e)'
      PROVE  FALSE
  <2>1. Len(jobs') >= 1
    BY <1>1, <1>5, EmptySeq DEF Now
  <2>2. jobs'[1].do \in {"shut", "make"}
    BY <1>5 DEF Now
  <2> QED BY <1>1, <1>2, <1>3, <2>1, <2>2
<1> QED BY <1>1, <1>2, <1>4, <1>5

LEMMA TheJobGoesOn ==
    ASSUME jobs \in Seq(Jobs), OneUnderWay, jobs # <<>>,
           NEW do \in {"shut", "make"}, NEW e \in Engines, Then(do, e)
    PROVE  /\ jobs' \in Seq(Jobs) /\ OneUnderWay'
           /\ Len(jobs) \in Nat \ {0} /\ Len(jobs') = Len(jobs)
           /\ jobs'[1].do = do /\ jobs'[1].of = e
           /\ \A i \in 2..Len(jobs') : jobs'[i] = jobs[i]
           /\ \A d, x : Now(d, x)' => d = do /\ x = e
<1>1. /\ Tail(jobs) \in Seq(Jobs) /\ Len(Tail(jobs)) = Len(jobs) - 1
      /\ \A i \in 1..Len(Tail(jobs)) : Tail(jobs)[i] = jobs[i + 1]
  BY HeadTailProperties
<1>2. Len(jobs) \in Nat \ {0}
  BY EmptySeq
<1>3. /\ Job(do, e) \in Seq(Jobs) /\ Len(Job(do, e)) = 1
      /\ Job(do, e)[1].do = do /\ Job(do, e)[1].of = e
  BY OneJob
<1> DEFINE s == Job(do, e)
           t == Tail(jobs)
<1>4. s \in Seq(Jobs) /\ t \in Seq(Jobs) /\ jobs' = s \o t
  BY <1>1, <1>3 DEF Then
<1>5. /\ jobs' \in Seq(Jobs) /\ Len(jobs') = Len(s) + Len(t)
      /\ \A i \in 1..Len(s) + Len(t) : jobs'[i] = IF i <= Len(s) THEN s[i] ELSE t[i - Len(s)]
  <2> HIDE DEF s, t
  <2> QED BY <1>4, ConcatProperties
<1>6. /\ Len(jobs') = Len(jobs)
      /\ jobs'[1] = s[1]
      /\ \A i \in 2..Len(jobs') : jobs'[i] = t[i - 1]
  <2> HIDE DEF t
  <2>1. Len(s) = 1 /\ Len(t) = Len(jobs) - 1
    BY <1>1, <1>3 DEF t
  <2> HIDE DEF s
  <2> QED BY <1>2, <1>5, <2>1
<1>7. \A i \in 2..Len(jobs') : jobs'[i] = jobs[i]
  <2>1. ASSUME NEW i \in 2..Len(jobs')
        PROVE  jobs'[i] = jobs[i]
    <3>1. i - 1 \in 1..Len(Tail(jobs)) /\ (i - 1) + 1 = i
      BY <1>1, <1>2, <1>6, <2>1
    <3> QED BY <1>1, <1>6, <3>1
  <2> QED BY <2>1
<1>8. OneUnderWay'
  BY <1>6, <1>7 DEF OneUnderWay
<1>9. jobs'[1].do = do /\ jobs'[1].of = e
  BY <1>3, <1>6
<1>10. ASSUME NEW d, NEW x, Now(d, x)'
       PROVE  d = do /\ x = e
  BY <1>9, <1>10 DEF Now
<1> QED BY <1>2, <1>5, <1>6, <1>7, <1>8, <1>9, <1>10

LEMMA MoreJobs ==
    ASSUME jobs \in Seq(Jobs), OneUnderWay, NEW s, ForLater(s), jobs' = jobs \o s
    PROVE  /\ jobs' \in Seq(Jobs) /\ OneUnderWay'
           /\ Len(jobs) \in Nat /\ Len(s) \in Nat /\ Len(jobs') = Len(jobs) + Len(s)
           /\ \A i \in 1..Len(s) : jobs'[Len(jobs) + i] = s[i]
           /\ \A d \in {"shut", "make"} : \A x : Now(d, x)' => Now(d, x)
<1>1. /\ jobs' \in Seq(Jobs) /\ Len(jobs') = Len(jobs) + Len(s)
      /\ \A i \in 1..Len(jobs) + Len(s) : jobs'[i] = IF i <= Len(jobs) THEN jobs[i] ELSE s[i - Len(jobs)]
  BY ConcatProperties DEF ForLater
<1>2. Len(jobs) \in Nat /\ Len(s) \in Nat
  BY DEF ForLater
<1>3. OneUnderWay'
  <2>1. ASSUME NEW i \in 2..Len(jobs')
        PROVE  jobs'[i].do \notin {"shut", "make"}
    <3>1. CASE i <= Len(jobs)
      BY <1>1, <1>2, <2>1, <3>1 DEF OneUnderWay
    <3>2. CASE i > Len(jobs)
      <4>1. i - Len(jobs) \in 1..Len(s) /\ jobs'[i] = s[i - Len(jobs)]
        BY <1>1, <1>2, <2>1, <3>2
      <4> QED BY <4>1 DEF ForLater
    <3> QED BY <1>2, <2>1, <3>1, <3>2
  <2> QED BY <2>1 DEF OneUnderWay
<1>4. \A i \in 1..Len(s) : jobs'[Len(jobs) + i] = s[i]
  <2>1. ASSUME NEW i \in 1..Len(s)
        PROVE  jobs'[Len(jobs) + i] = s[i]
    <3>1. Len(jobs) + i \in 1..Len(jobs) + Len(s) /\ ~(Len(jobs) + i <= Len(jobs))
          /\ (Len(jobs) + i) - Len(jobs) = i
      BY <1>2
    <3> QED BY <1>1, <3>1
  <2> QED BY <2>1
<1>5. ASSUME NEW d \in {"shut", "make"}, NEW x, Now(d, x)'
      PROVE  Now(d, x)
  <2>1. Len(jobs) >= 1
    <3> SUFFICES ASSUME Len(jobs) = 0
                 PROVE  FALSE
      BY <1>2
    <3>1. 1 \in 1..Len(jobs')
      BY <1>1, <1>5, EmptySeq DEF Now
    <3>2. jobs'[1] = s[1] /\ 1 \in 1..Len(s)
      BY <1>1, <1>2, <3>1
    <3>3. jobs'[1].do \notin {"shut", "make"}
      BY <3>2 DEF ForLater
    <3> QED BY <1>5, <3>3 DEF Now
  <2>2. jobs'[1] = jobs[1] /\ jobs # <<>>
    BY <1>1, <1>2, <2>1, EmptySeq
  <2> QED BY <1>5, <2>2 DEF Now
<1> QED BY <1>1, <1>2, <1>3, <1>4, <1>5
--------------------------------------------------------------------------------
(* The steps that open and close nothing.                                    *)
Callback ==
    \/ \E e \in Engines :
          \/ UserRuns(e) \/ Answers(e, TRUE) \/ Answers(e, FALSE)
          \/ Writes(e) \/ Ends(e) \/ EndsAndAsks(e)
          \/ EditsNote(e)
    \/ ClockTicks \/ DebounceEnds \/ TogglesAutoSync

LEMMA NextSplit ==
    PluginNext => Callback \/ Reconnects \/ Unloads \/ OpeningOrClosing
BY DEF PluginNext, Callback

LEMMA JobsStep ==
    ASSUME PluginTypeOK, OneUnderWay, PluginNext
    PROVE  jobs' \in Seq(Jobs) /\ OneUnderWay'
<1>0. jobs \in Seq(Jobs)
  BY DEF PluginTypeOK
<1>1. CASE UNCHANGED jobs
  BY <1>0, <1>1 DEF OneUnderWay
<1>2. CASE Reconnects
  BY <1>0, <1>2, MoreJobs, InitJobsLater DEF Reconnects
<1>3. CASE Unloads
  BY <1>0, <1>3, MoreJobs, UnloadJobsLater DEF Unloads, Unloading
<1>4. CASE jobs # <<>> /\ Done
  BY <1>0, <1>4, TheNextJob DEF Done
<1>5. ASSUME NEW e \in Engines, CloseBegins(e) \/ OpensBase(e)
      PROVE  jobs' \in Seq(Jobs) /\ OneUnderWay'
  BY <1>0, <1>5, TheJobGoesOn DEF CloseBegins, OpensBase, Now
<1>6. ASSUME NEW e \in Engines, CloseFails(e)
      PROVE  jobs' \in Seq(Jobs) /\ OneUnderWay'
  <2>1. jobs # <<>>
    BY <1>6 DEF CloseFails, Stopped, Now
  <2>2. CASE jobs' = Tail(jobs)
    BY <1>0, <2>1, <2>2, TheNextJob
  <2>3. CASE Len(jobs) > 1 /\ jobs' = Tail(Tail(jobs))
    <3>1. /\ Tail(jobs) \in Seq(Jobs) /\ Len(Tail(jobs)) = Len(jobs) - 1 /\ Len(jobs) \in Nat
          /\ \A i \in 1..Len(Tail(jobs)) : Tail(jobs)[i] = jobs[i + 1]
      BY <1>0, <2>1, HeadTailProperties
    <3>2. Tail(jobs) # <<>>
      BY <2>3, <3>1, EmptySeq
    <3>3. /\ jobs' \in Seq(Jobs) /\ Len(jobs') = Len(jobs) - 2
          /\ \A i \in 1..Len(jobs') : jobs'[i] = Tail(jobs)[i + 1]
      BY <2>3, <3>1, <3>2, HeadTailProperties
    <3>4. ASSUME NEW i \in 2..Len(jobs')
          PROVE  jobs'[i] = jobs[i + 2] /\ i + 2 \in 2..Len(jobs)
      <4>1. i + 1 \in 1..Len(Tail(jobs)) /\ (i + 1) + 1 = i + 2
        BY <3>1, <3>3
      <4> QED BY <3>1, <3>3, <4>1
    <3> QED BY <3>3, <3>4 DEF OneUnderWay
  <2> QED BY <1>6, <2>2, <2>3 DEF CloseFails
<1>7. CASE Callback
  <2>1. UNCHANGED jobs
    BY <1>7 DEF Callback, UserRuns, Answers, Writes, Ends, EndsAndAsks, EditsNote, ClockTicks,
       DebounceEnds, TogglesAutoSync, lifeVars
  <2> QED BY <1>1, <2>1
<1>8. ASSUME NEW e \in Engines, CloseEnds(e) \/ MakesController(e) \/ OpenFails(e) \/ SetsClock
      PROVE  jobs # <<>> /\ Done
  BY <1>8 DEF CloseEnds, MakesController, OpenFails, SetsClock, Stopped, Now
<1> QED
  BY <1>2, <1>3, <1>4, <1>5, <1>6, <1>7, <1>8, NextSplit DEF OpeningOrClosing, Engines

LEMMA BeginTyped ==
    ASSUME PluginTypeOK, NEW S \in SUBSET Engines, NEW kind \in Kinds, Begin(S, kind)
    PROVE  op' \in [Engines -> Kinds \cup {"none"}] /\ accepted' \subseteq Engines
BY DEF PluginTypeOK, Begin

LEMMA ReleasedTyped ==
    ASSUME PluginTypeOK, NEW e \in Engines, Released(e)
    PROVE  /\ op' \in [Engines -> Kinds \cup {"none"}]
           /\ accepted' \subseteq Engines /\ again' \subseteq Engines
<1>1. CASE e \in again
  BY <1>1, BeginTyped DEF PluginTypeOK, Released, Kinds
<1>2. CASE e \notin again
  BY <1>2 DEF PluginTypeOK, Released
<1> QED BY <1>1, <1>2

LEMMA TypesStep ==
    ASSUME PluginTypeOK, OneUnderWay, PluginNext
    PROVE  PluginTypeOK'
<1> USE PluginAssumption
<1>1. jobs' \in Seq(Jobs)
  BY JobsStep
<1>2. ASSUME NEW e \in Engines, UserRuns(e) \/ Ends(e) \/ EndsAndAsks(e) \/ Answers(e, TRUE) \/ Answers(e, FALSE)
      PROVE  PluginTypeOK'
  <2>1. CASE UserRuns(e)
    <3>1. op' \in [Engines -> Kinds \cup {"none"}] /\ accepted' \subseteq Engines
      BY <2>1, BeginTyped DEF UserRuns, Kinds
    <3> QED BY <1>1, <2>1, <3>1 DEF PluginTypeOK, UserRuns, timerVars, lifeVars
  <2>2. CASE Ends(e)
    BY <1>1, <2>2, ReleasedTyped DEF PluginTypeOK, Ends, timerVars, lifeVars
  <2>3. CASE EndsAndAsks(e)
    <3>1. /\ op' \in [Engines -> Kinds \cup {"none"}]
          /\ accepted' \subseteq Engines /\ again' \subseteq Engines
      BY <2>3, ReleasedTyped DEF EndsAndAsks
    <3>2. spent' \in [notes : 0..MaxNotes, user : 0..MaxUser, setup : 0..MaxSetup]
      BY <2>3 DEF PluginTypeOK, EndsAndAsks
    <3>3. asking' \in [Engines -> {"none", "now", "former"}]
      BY <2>3 DEF PluginTypeOK, EndsAndAsks
    <3> QED BY <1>1, <2>3, <3>1, <3>2, <3>3 DEF PluginTypeOK, EndsAndAsks, timerVars, lifeVars
  <2>4. ASSUME NEW accept \in BOOLEAN, Answers(e, accept)
        PROVE  PluginTypeOK'
    <3>1. op' \in [Engines -> Kinds \cup {"none"}] /\ accepted' \subseteq Engines
      <4>1. CASE Begin({e}, "fix")
        BY <4>1, BeginTyped DEF Kinds
      <4>2. CASE UNCHANGED <<op, accepted>>
        BY <4>2 DEF PluginTypeOK
      <4> QED BY <2>4, <4>1, <4>2 DEF Answers
    <3> QED BY <1>1, <2>4, <3>1 DEF PluginTypeOK, Answers, timerVars, lifeVars
  <2> QED BY <1>2, <2>1, <2>2, <2>3, <2>4
<1>3. ASSUME NEW e \in Engines, Writes(e) \/ EditsNote(e)
      PROVE  PluginTypeOK'
  BY <1>1, <1>3 DEF PluginTypeOK, Writes, EditsNote, Queued, timerVars, lifeVars, opsVars
<1>4. CASE ClockTicks
  <2>1. op' \in [Engines -> Kinds \cup {"none"}] /\ accepted' \subseteq Engines
    BY <1>4, BeginTyped DEF ClockTicks, Kinds
  <2> QED BY <1>1, <1>4, <2>1 DEF PluginTypeOK, ClockTicks, timerVars, lifeVars
<1>5. CASE DebounceEnds
  <2>1. op' \in [Engines -> Kinds \cup {"none"}] /\ accepted' \subseteq Engines
    BY <1>5, BeginTyped DEF DebounceEnds, VaultSyncs, PluginTypeOK, Kinds
  <2> QED BY <1>1, <1>5, <2>1 DEF PluginTypeOK, DebounceEnds, VaultSyncs, lifeVars
<1>6. CASE TogglesAutoSync
  BY <1>1, <1>6 DEF PluginTypeOK, TogglesAutoSync, opsVars, lifeVars
<1>7. CASE Reconnects \/ Unloads
  <2>1. CASE Reconnects
    <3>1. spent' \in [notes : 0..MaxNotes, user : 0..MaxUser, setup : 0..MaxSetup]
      BY <2>1 DEF PluginTypeOK, Reconnects
    <3> QED BY <1>1, <2>1, <3>1 DEF PluginTypeOK, Reconnects, opsVars, timerVars
  <2>2. CASE Unloads
    BY <1>1, <2>2 DEF PluginTypeOK, Unloads, opsVars
  <2> QED BY <1>7, <2>1, <2>2
<1>8. ASSUME NEW e \in Engines,
             CloseBegins(e) \/ CloseEnds(e) \/ CloseFails(e) \/ OpensBase(e) \/ MakesController(e)
             \/ OpenFails(e) \/ SetsClock
      PROVE  PluginTypeOK'
  <2>1. CASE CloseBegins(e)
    BY <1>1, <2>1 DEF PluginTypeOK, CloseBegins, timerVars
  <2>2. CASE CloseEnds(e) \/ CloseFails(e)
    BY <1>1, <2>2 DEF PluginTypeOK, CloseEnds, CloseFails, opsVars
  <2>3. CASE OpensBase(e) \/ MakesController(e) \/ OpenFails(e)
    BY <1>1, <2>3 DEF PluginTypeOK, OpensBase, MakesController, OpenFails, opsVars, timerVars
  <2>4. CASE SetsClock
    BY <1>1, <2>4 DEF PluginTypeOK, SetsClock, opsVars
  <2> QED BY <1>8, <2>1, <2>2, <2>3, <2>4
<1> QED
  BY <1>2, <1>3, <1>4, <1>5, <1>6, <1>7, <1>8, NextSplit DEF Callback, OpeningOrClosing, Engines
--------------------------------------------------------------------------------
(* An operation begins only where there is a controller.                     *)

LEMMA CallbackKeeps ==
    ASSUME PluginInv, Callback
    PROVE  /\ UNCHANGED <<jobs, ready, base, unloaded>>
           /\ \A e \in Engines : op'[e] # "none" => op[e] # "none" \/ e \in ready
           /\ accepted' \subseteq ready /\ again' \subseteq ready
           /\ AcceptedEditIsComing'
<1> USE DEF PluginInv, StandsOnBase, PluginTypeOK, AcceptedEditIsComing, Busy
<1> DEFINE Goal == /\ UNCHANGED <<jobs, ready, base, unloaded>>
                   /\ \A e \in Engines : op'[e] # "none" => op[e] # "none" \/ e \in ready
                   /\ accepted' \subseteq ready /\ again' \subseteq ready
                   /\ AcceptedEditIsComing'
<1>1. ASSUME NEW e \in Engines, UserRuns(e)
      PROVE  Goal
  BY <1>1 DEF UserRuns, Admits, Begin, timerVars, lifeVars
<1>2. ASSUME NEW e \in Engines, NEW accept \in BOOLEAN, Answers(e, accept)
      PROVE  Goal
  BY <1>2 DEF Answers, MayFix, Admits, Begin, timerVars, lifeVars
<1>3. ASSUME NEW e \in Engines, Writes(e)
      PROVE  Goal
  BY <1>3 DEF Writes, timerVars, lifeVars
<1>4. ASSUME NEW e \in Engines, Released(e), UNCHANGED <<timerVars, lifeVars>>
      PROVE  Goal
  BY <1>4 DEF Released, Begin, timerVars, lifeVars
<1>5. ASSUME NEW e \in Engines, EditsNote(e)
      PROVE  Goal
  BY <1>5 DEF EditsNote, Routed, Queued, opsVars, lifeVars
<1>6. CASE ClockTicks
  BY <1>6 DEF ClockTicks, Admits, Begin, timerVars, lifeVars
<1>7. CASE DebounceEnds
  BY <1>7 DEF DebounceEnds, VaultSyncs, Admits, Begin, lifeVars
<1>8. CASE TogglesAutoSync
  BY <1>8 DEF TogglesAutoSync, opsVars, lifeVars
<1> QED
  BY <1>1, <1>2, <1>3, <1>4, <1>5, <1>6, <1>7, <1>8 DEF Callback, Ends, EndsAndAsks

LEMMA BaseStep ==
    ASSUME PluginInv, PluginNext
    PROVE  StandsOnBase' /\ RunsOnOpenBase' /\ AcceptedEditIsComing'
<1> USE DEF RunsOnOpenBase, StandsOnBase, AcceptedEditIsComing, Busy
<1> DEFINE Goal == StandsOnBase' /\ RunsOnOpenBase' /\ AcceptedEditIsComing'
<1>0. /\ jobs \in Seq(Jobs) /\ OneUnderWay
      /\ StandsOnBase /\ RunsOnOpenBase /\ AcceptedEditIsComing /\ PluginTypeOK
  BY DEF PluginInv, PluginTypeOK
<1>1. CASE Callback
  BY <1>0, <1>1, CallbackKeeps DEF Now
<1>2. CASE Reconnects
  <2>1. \A d \in {"shut", "make"} : \A x : Now(d, x)' => Now(d, x)
    BY <1>0, <1>2, MoreJobs, InitJobsLater DEF Reconnects
  <2> QED BY <1>0, <1>2, <2>1 DEF Reconnects, opsVars, timerVars
<1>3. CASE Unloads
  <2>1. \A d \in {"shut", "make"} : \A x : Now(d, x)' => Now(d, x)
    BY <1>0, <1>3, MoreJobs, UnloadJobsLater DEF Unloads, Unloading
  <2> QED BY <1>0, <1>3, <2>1 DEF Unloads, opsVars
<1>4. ASSUME NEW e \in Engines, CloseBegins(e)
      PROVE  Goal
  <2>1. \A d, x : Now(d, x)' => d = "shut" /\ x = e
    BY <1>0, <1>4, TheJobGoesOn DEF CloseBegins, Now
  <2>2. Now("make", e)' => FALSE
    BY <2>1
  <2>3. \A x \in Engines : (Now("make", x)' => FALSE) /\ (Now("shut", x)' => x = e)
    BY <2>1
  <2> QED BY <1>0, <1>4, <2>3 DEF CloseBegins, timerVars, PluginTypeOK
<1>5. ASSUME NEW e \in Engines, CloseEnds(e) \/ CloseFails(e)
      PROVE  Goal
  <2>1. \A x \in Engines : (Now("make", x)' => FALSE) /\ (Now("shut", x)' => FALSE)
    <3>1. jobs # <<>>
      BY <1>5 DEF CloseEnds, CloseFails, Stopped, Now
    <3>2. CASE jobs' = Tail(jobs)
      BY <1>0, <3>1, <3>2, TheNextJob
    <3>3. CASE CloseFails(e) /\ jobs' # Tail(jobs)
      <4>1. PluginNext /\ PluginTypeOK
        BY <1>0
      <4>2. /\ Tail(jobs) \in Seq(Jobs) /\ Len(Tail(jobs)) = Len(jobs) - 1 /\ Len(jobs) \in Nat
            /\ \A i \in 1..Len(Tail(jobs)) : Tail(jobs)[i] = jobs[i + 1]
            /\ Len(jobs) > 1 /\ jobs' = Tail(Tail(jobs))
        BY <1>0, <3>1, <3>3, HeadTailProperties DEF CloseFails
      <4>3. Tail(jobs) # <<>>
        BY <4>2, EmptySeq
      <4>4. /\ jobs' \in Seq(Jobs) /\ Len(jobs') = Len(jobs) - 2
            /\ \A i \in 1..Len(jobs') : jobs'[i] = Tail(jobs)[i + 1]
        BY <4>2, <4>3, HeadTailProperties
      <4>5. ASSUME jobs' # <<>>
            PROVE  jobs'[1].do \notin {"shut", "make"}
        <5>1. 1 \in 1..Len(jobs') /\ 2 \in 1..Len(Tail(jobs)) /\ 3 \in 2..Len(jobs)
          BY <4>2, <4>4, <4>5, EmptySeq
        <5>2. jobs'[1] = jobs[3]
          BY <4>2, <4>4, <5>1
        <5> QED BY <1>0, <5>1, <5>2 DEF OneUnderWay
      <4> QED BY <4>5 DEF Now
    <3> QED BY <1>5, <3>2, <3>3 DEF CloseEnds, Done
  <2>2. ~Busy(e) /\ e \notin ready
    BY <1>0, <1>5 DEF CloseEnds, CloseFails, Stopped
  <2> QED BY <1>0, <1>5, <2>1, <2>2 DEF CloseEnds, CloseFails, opsVars, PluginTypeOK
<1>6. ASSUME NEW e \in Engines, OpensBase(e)
      PROVE  Goal
  <2>1. \A x \in Engines : (Now("make", x)' => x = e) /\ (Now("shut", x)' => FALSE)
    <3>1. \A d, x : Now(d, x)' => d = "make" /\ x = e
      BY <1>0, <1>6, TheJobGoesOn DEF OpensBase, Now
    <3>2. \A x : Now("make", x)' => x = e
      BY <3>1
    <3>3. \A x : Now("shut", x)' => "shut" = "make"
      BY <3>1
    <3> QED BY <3>2, <3>3
  <2> QED BY <1>0, <1>6, <2>1 DEF OpensBase, opsVars, timerVars, PluginTypeOK
<1>7. ASSUME NEW e \in Engines, MakesController(e) \/ OpenFails(e) \/ SetsClock
      PROVE  Goal
  <2>1. \A x \in Engines : (Now("make", x)' => FALSE) /\ (Now("shut", x)' => FALSE)
    BY <1>0, <1>7, TheNextJob DEF MakesController, OpenFails, SetsClock, Now, Done
  <2> QED BY <1>0, <1>7, <2>1 DEF MakesController, OpenFails, SetsClock, opsVars, timerVars
<1> QED
  BY <1>1, <1>2, <1>3, <1>4, <1>5, <1>6, <1>7, NextSplit DEF OpeningOrClosing, Engines
--------------------------------------------------------------------------------
(* What an unload has to close.  When a job is done the others move up; when *)
(* one is done with an engine it leaves it as Closed asks, or there is       *)
(* another to come.                                                          *)

LEMMA StillClosedInTheEnd ==
    ASSUME PluginTypeOK, NEW e \in Engines, ClosedInTheEnd(e),
           jobs # <<>>, NEW n \in {1, 2}, Len(jobs') = Len(jobs) - n, n <= Len(jobs),
           Len(jobs) \in Nat, Len(jobs') \in Nat,
           \A i \in 1..Len(jobs') : jobs'[i] = jobs[i + n],
           \A i \in 1..n : Closes(i, e) => Closed(e)',
           Closed(e) /\ (\A j \in 1..Len(jobs) : ~Opens(j, e)) => Closed(e)'
    PROVE  ClosedInTheEnd(e)'
<1>0. \A i \in 1..Len(jobs') : i + n \in 1..Len(jobs) /\ jobs'[i] = jobs[i + n]
  OBVIOUS
<1>1. ASSUME NEW i \in 1..Len(jobs), Closes(i, e), \A j \in 1..Len(jobs) : j > i => ~Opens(j, e)
      PROVE  ClosedInTheEnd(e)'
  <2>1. CASE i <= n
    <3>1. Closed(e)'
      BY <1>1, <2>1
    <3>2. \A j \in 1..Len(jobs') : ~Opens(j, e)'
      BY <1>0, <1>1, <2>1 DEF Opens
    <3> QED BY <3>1, <3>2 DEF ClosedInTheEnd
  <2>2. CASE i > n
    <3>1. i - n \in 1..Len(jobs') /\ jobs'[i - n] = jobs[i]
      <4>1. i - n \in 1..Len(jobs') /\ (i - n) + n = i
        BY <1>1, <2>2
      <4> QED BY <1>0, <4>1
    <3>2. Closes(i - n, e)'
      BY <1>1, <3>1 DEF Closes
    <3>3. \A j \in 1..Len(jobs') : j > i - n => ~Opens(j, e)'
      BY <1>0, <1>1, <2>2 DEF Opens
    <3> QED BY <3>1, <3>2, <3>3 DEF ClosedInTheEnd
  <2> QED BY <1>1, <2>1, <2>2
<1>2. CASE Closed(e) /\ \A j \in 1..Len(jobs) : ~Opens(j, e)
  <2>1. \A j \in 1..Len(jobs') : ~Opens(j, e)'
    BY <1>0, <1>2 DEF Opens
  <2> QED BY <1>2, <2>1 DEF ClosedInTheEnd
<1> QED BY <1>1, <1>2 DEF ClosedInTheEnd

LEMMA NoJobUndone ==
    ASSUME NEW e \in Engines, ClosedInTheEnd(e), Len(jobs') = Len(jobs),
           Len(jobs) \in Nat \ {0},
           \A i \in 2..Len(jobs) : jobs'[i] = jobs[i],
           Closes(1, e) => Closes(1, e)',
           Opens(1, e)' => Opens(1, e),
           Closed(e) /\ (\A j \in 1..Len(jobs) : ~Opens(j, e)) => Closed(e)'
    PROVE  ClosedInTheEnd(e)'
<1>1. \A i \in 1..Len(jobs) : (Opens(i, e)' => Opens(i, e)) /\ (Closes(i, e) => Closes(i, e)')
  BY DEF Opens, Closes
<1> QED BY <1>1 DEF ClosedInTheEnd

LEMMA UnloadStep ==
    ASSUME PluginInv, PluginNext
    PROVE  UnloadGoesOn'
<1>0. /\ jobs \in Seq(Jobs) /\ OneUnderWay /\ Len(jobs) \in Nat
      /\ StandsOnBase /\ RunsOnOpenBase /\ UnloadGoesOn /\ PluginTypeOK
  BY LenProperties DEF PluginInv, PluginTypeOK
<1>1. CASE Callback
  <2>1. ASSUME NEW e \in Engines, ClosedInTheEnd(e)
        PROVE  ClosedInTheEnd(e)'
    <3>1. UNCHANGED <<jobs, ready, base>> /\ (op'[e] # "none" => op[e] # "none" \/ e \in ready)
      BY <1>1, CallbackKeeps
    <3>2. Closed(e) => Closed(e)'
      BY <3>1 DEF Closed, Busy
    <3> QED BY <2>1, <3>1, <3>2 DEF ClosedInTheEnd, Opens, Closes
  <2>2. UNCHANGED unloaded
    BY <1>1, CallbackKeeps
  <2> QED BY <1>0, <2>1, <2>2 DEF UnloadGoesOn
<1>2. CASE Reconnects
  BY <1>2 DEF Reconnects, UnloadGoesOn
<1>3. CASE Unloads
  <2>1. /\ Len(UnloadJobs) \in Nat /\ Len(jobs') = Len(jobs) + Len(UnloadJobs)
        /\ \A i \in 1..Len(UnloadJobs) : jobs'[Len(jobs) + i] = UnloadJobs[i]
    BY <1>0, <1>3, MoreJobs, UnloadJobsLater DEF Unloads, Unloading
  <2>2. ASSUME NEW e \in Engines
        PROVE  ClosedInTheEnd(e)'
    <3>1. PICK i \in 1..Len(UnloadJobs) : UnloadJobs[i].of = e /\ UnloadJobs[i].do = "close"
      BY UnloadJobsLater
    <3>2. PICK k \in 1..Len(jobs') : k = Len(jobs) + i /\ jobs'[k] = UnloadJobs[i]
      BY <1>0, <2>1, <3>1
    <3>3. Closes(k, e)'
      BY <3>1, <3>2 DEF Closes
    <3>4. ASSUME NEW j \in 1..Len(jobs'), j > k
          PROVE  ~Opens(j, e)'
      <4>1. PICK m \in 1..Len(UnloadJobs) : Len(jobs) + m = j
        <5>1. j - Len(jobs) \in 1..Len(UnloadJobs) /\ Len(jobs) + (j - Len(jobs)) = j
          BY <1>0, <2>1, <3>1, <3>2, <3>4
        <5> QED BY <5>1
      <4>2. jobs'[j].do = "close"
        BY <2>1, <4>1, UnloadJobsLater
      <4> QED BY <4>2 DEF Opens
    <3> QED BY <3>3, <3>4 DEF ClosedInTheEnd
  <2> QED BY <2>2 DEF UnloadGoesOn
<1>4. ASSUME NEW x \in Engines, CloseBegins(x) \/ OpensBase(x), NEW e \in Engines, ClosedInTheEnd(e)
      PROVE  ClosedInTheEnd(e)'
  <2>1. jobs # <<>> /\ jobs[1].of = x
    BY <1>4 DEF CloseBegins, OpensBase, Now
  <2>2. CASE CloseBegins(x)
    <3>1. /\ Len(jobs') = Len(jobs) /\ Len(jobs) \in Nat \ {0}
          /\ jobs'[1].do = "shut" /\ jobs'[1].of = x
          /\ \A i \in 2..Len(jobs') : jobs'[i] = jobs[i]
      BY <1>0, <2>1, <2>2, TheJobGoesOn DEF CloseBegins
    <3>2. Closed(e) => Closed(e)'
      BY <2>2 DEF CloseBegins, Closed, Busy
    <3>3. (Closes(1, e) => Closes(1, e)') /\ (Opens(1, e)' => Opens(1, e))
      BY <2>1, <3>1 DEF Closes, Opens
    <3> QED BY <1>4, <3>1, <3>2, <3>3, NoJobUndone
  <2>3. CASE OpensBase(x)
    <3>1. /\ Len(jobs') = Len(jobs) /\ Len(jobs) \in Nat \ {0}
          /\ jobs'[1].do = "make" /\ jobs'[1].of = x
          /\ \A i \in 2..Len(jobs') : jobs'[i] = jobs[i]
      BY <1>0, <2>1, <2>3, TheJobGoesOn DEF OpensBase
    <3>2. jobs[1].do = "open" /\ 1 \in 1..Len(jobs)
      BY <2>3, <3>1 DEF OpensBase, Now
    <3>3. (Closes(1, e) => Closes(1, e)') /\ (Opens(1, e)' => Opens(1, e))
      BY <2>1, <3>1, <3>2 DEF Closes, Opens
    <3>4. Closed(e) /\ (\A j \in 1..Len(jobs) : ~Opens(j, e)) => Closed(e)'
      <4>1. SUFFICES ASSUME Closed(e), \A j \in 1..Len(jobs) : ~Opens(j, e)
                     PROVE  Closed(e)'
        OBVIOUS
      <4>2. x # e
        BY <2>1, <3>2, <4>1 DEF Opens
      <4> QED BY <1>0, <2>3, <4>1, <4>2 DEF OpensBase, Closed, Busy, opsVars, PluginTypeOK
    <3> QED BY <1>4, <3>1, <3>3, <3>4, NoJobUndone
  <2> QED BY <1>4, <2>2, <2>3
<1>5. ASSUME NEW x \in Engines, CloseEnds(x) \/ CloseFails(x), NEW e \in Engines, ClosedInTheEnd(e)
      PROVE  ClosedInTheEnd(e)'
  <2>1. /\ jobs # <<>> /\ jobs[1].of = x /\ jobs[1].do = "shut"
        /\ ~Busy(x) /\ x \notin ready
    BY <1>0, <1>5 DEF CloseEnds, CloseFails, Stopped, StandsOnBase, Now
  <2>2. Closed(x)' /\ (Closed(e) => Closed(e)')
    BY <1>0, <1>5, <2>1 DEF CloseEnds, CloseFails, Closed, Busy, opsVars, PluginTypeOK
  <2>3. CASE jobs' = Tail(jobs)
    <3>1. /\ Len(jobs) \in Nat \ {0} /\ Len(jobs') = Len(jobs) - 1 /\ Len(jobs') \in Nat
          /\ \A i \in 1..Len(jobs') : jobs'[i] = jobs[i + 1]
      BY <1>0, <2>1, <2>3, TheNextJob
    <3>2. \A i \in 1..1 : Closes(i, e) => Closed(e)'
      BY <2>1, <2>2 DEF Closes
    <3> QED BY <1>0, <1>5, <2>1, <2>2, <3>1, <3>2, StillClosedInTheEnd
  <2>4. CASE jobs' # Tail(jobs)
    <3>1. /\ Len(jobs) > 1 /\ jobs[2].do = "open" /\ jobs' = Tail(Tail(jobs))
      BY <1>5, <2>4 DEF CloseEnds, CloseFails, Done
    <3>2. /\ Tail(jobs) \in Seq(Jobs) /\ Len(Tail(jobs)) = Len(jobs) - 1
          /\ \A i \in 1..Len(Tail(jobs)) : Tail(jobs)[i] = jobs[i + 1]
      BY <1>0, <2>1, HeadTailProperties
    <3>3. Tail(jobs) # <<>>
      <4>1. Len(Tail(jobs)) # 0
        BY <1>0, <3>1, <3>2
      <4>2. Len(<<>>) = 0
        OBVIOUS
      <4> QED BY <4>1, <4>2, Zenon
    <3>4. /\ Len(jobs') = Len(Tail(jobs)) - 1
          /\ \A i \in 1..Len(jobs') : jobs'[i] = Tail(jobs)[i + 1]
      BY <3>1, <3>2, <3>3, HeadTailProperties
    <3>5. /\ Len(jobs') = Len(jobs) - 2 /\ Len(jobs') \in Nat
          /\ \A i \in 1..Len(jobs') : jobs'[i] = jobs[i + 2]
      <4>1. Len(jobs') = Len(jobs) - 2 /\ Len(jobs') \in Nat
        BY <1>0, <3>1, <3>2, <3>4
      <4>2. ASSUME NEW i \in 1..Len(jobs')
            PROVE  jobs'[i] = jobs[i + 2]
        <5>1. i + 1 \in 1..Len(Tail(jobs)) /\ (i + 1) + 1 = i + 2
          BY <1>0, <3>2, <4>1
        <5> QED BY <3>2, <3>4, <5>1
      <4> QED BY <4>1, <4>2
    <3>6. \A i \in 1..2 : Closes(i, e) => Closed(e)'
      BY <2>1, <2>2, <3>1 DEF Closes
    <3> QED BY <1>0, <1>5, <2>1, <2>2, <3>1, <3>5, <3>6, StillClosedInTheEnd
  <2> QED BY <2>3, <2>4
<1>6. ASSUME NEW x \in Engines, MakesController(x) \/ OpenFails(x) \/ SetsClock,
             NEW e \in Engines, ClosedInTheEnd(e)
      PROVE  ClosedInTheEnd(e)'
  <2>1. /\ jobs # <<>> /\ jobs[1].do \in {"open", "make", "timers"} /\ jobs' = Tail(jobs)
        /\ MakesController(x) => jobs[1].of = x /\ jobs[1].do = "make"
    BY <1>6 DEF MakesController, OpenFails, SetsClock, Now, Done
  <2>2. /\ Len(jobs) \in Nat \ {0} /\ Len(jobs') = Len(jobs) - 1 /\ Len(jobs') \in Nat
        /\ \A i \in 1..Len(jobs') : jobs'[i] = jobs[i + 1]
    BY <1>0, <2>1, TheNextJob
  <2>3. \A i \in 1..1 : Closes(i, e) => Closed(e)'
    BY <2>1 DEF Closes
  <2>4. Closed(e) /\ (\A j \in 1..Len(jobs) : ~Opens(j, e)) => Closed(e)'
    <3>1. SUFFICES ASSUME Closed(e), \A j \in 1..Len(jobs) : ~Opens(j, e)
                   PROVE  Closed(e)'
      OBVIOUS
    <3>2. MakesController(x) => x # e
      <4>1. ~Opens(1, e)
        BY <2>2, <3>1
      <4> QED BY <2>1, <4>1 DEF Opens
    <3> QED
      BY <1>6, <3>1, <3>2 DEF MakesController, OpenFails, SetsClock, Closed, Busy, opsVars
  <2>5. /\ 1 \in Nat /\ Len(jobs) - 1 \in Nat /\ PluginTypeOK /\ ClosedInTheEnd(e)
    BY <1>0, <1>6, <2>2
  <2> QED BY <2>2, <2>3, <2>4, <2>5, StillClosedInTheEnd
<1>7. CASE OpeningOrClosing
  <2>1. UNCHANGED unloaded
    BY <1>7 DEF OpeningOrClosing, CloseBegins, CloseEnds, CloseFails, OpensBase, MakesController,
       OpenFails, SetsClock
  <2>2. ASSUME NEW e \in Engines, ClosedInTheEnd(e)
        PROVE  ClosedInTheEnd(e)'
    BY <1>4, <1>5, <1>6, <1>7, <2>2 DEF OpeningOrClosing
  <2> QED BY <1>0, <2>1, <2>2 DEF UnloadGoesOn
<1> QED BY <1>1, <1>2, <1>3, <1>7, NextSplit
--------------------------------------------------------------------------------
LEMMA InvInit == PluginInit => PluginInv
<1> SUFFICES ASSUME PluginInit PROVE PluginInv
  OBVIOUS
<1>1. jobs \in Seq(Jobs) /\ \A i \in 1..Len(jobs) : jobs[i].do \notin {"shut", "make"}
  BY InitJobsLater DEF PluginInit, ForLater
<1>2. Len(jobs) \in Nat /\ (jobs # <<>> => 1 \in 1..Len(jobs))
  BY <1>1, EmptySeq, LenProperties
<1>3. OneUnderWay
  BY <1>1, <1>2 DEF OneUnderWay
<1>4. \A e : ~Now("shut", e) /\ ~Now("make", e)
  BY <1>1, <1>2 DEF Now
<1>5. PluginTypeOK
  <2>1. /\ base \in [Engines -> {"closed", "open", "unwritten"}]
        /\ op \in [Engines -> Kinds \cup {"none"}]
        /\ asking \in [Engines -> {"none", "now", "former"}]
    BY DEF PluginInit
  <2>2. spent \in [notes : 0..MaxNotes, user : 0..MaxUser, setup : 0..MaxSetup]
    BY PluginAssumption DEF PluginInit
  <2>3. timer \in BOOLEAN /\ autoSync \in BOOLEAN /\ clock \in BOOLEAN /\ unloaded \in BOOLEAN
    BY DEF PluginInit
  <2>4. /\ ready \subseteq Engines /\ again \subseteq Engines /\ waiting \subseteq Engines
        /\ accepted \subseteq Engines /\ writing \subseteq Engines
    BY DEF PluginInit
  <2> QED BY <1>1, <2>1, <2>2, <2>3, <2>4 DEF PluginTypeOK
<1>6. StandsOnBase /\ RunsOnOpenBase /\ AcceptedEditIsComing /\ UnloadGoesOn
  BY <1>4 DEF PluginInit, StandsOnBase, RunsOnOpenBase, AcceptedEditIsComing, UnloadGoesOn, Busy
<1> QED BY <1>3, <1>5, <1>6 DEF PluginInv

LEMMA InvStep == PluginInv /\ [PluginNext]_pluginVars => PluginInv'
<1> SUFFICES ASSUME PluginInv, [PluginNext]_pluginVars PROVE PluginInv'
  OBVIOUS
<1>1. CASE PluginNext
  BY <1>1, TypesStep, JobsStep, BaseStep, UnloadStep DEF PluginInv
<1>2. CASE UNCHANGED pluginVars
  BY <1>2 DEF PluginInv, PluginTypeOK, OneUnderWay, StandsOnBase, RunsOnOpenBase, AcceptedEditIsComing,
     UnloadGoesOn, ClosedInTheEnd, Opens, Closes, Closed, Busy, Now, pluginVars, opsVars, timerVars,
     lifeVars
<1> QED BY <1>1, <1>2

LEMMA InvHolds == PluginSpec => []PluginInv
BY InvInit, InvStep, PTL DEF PluginSpec

(* The variables of the plugin keep their types.                             *)
THEOREM PluginTypes == PluginSpec => []PluginTypeOK
<1>1. PluginInv => PluginTypeOK
  BY DEF PluginInv
<1> QED BY <1>1, InvHolds, PTL

(* However many folders are connected and however often they are reopened,   *)
(* no operation of a controller runs on a state DB that is not open.         *)
THEOREM OperationsRunOnOpenBase == PluginSpec => []RunsOnOpenBase
<1>1. PluginInv => RunsOnOpenBase
  BY DEF PluginInv
<1> QED BY <1>1, InvHolds, PTL

(* An edit the plugin took up is kept for a sync by the debounce they share  *)
(* or by the operation it has to wait for.                                   *)
THEOREM AcceptedEditsAreComing == PluginSpec => []AcceptedEditIsComing
<1>1. PluginInv => AcceptedEditIsComing
  BY DEF PluginInv
<1> QED BY <1>1, InvHolds, PTL

(* Whatever initialisations were under way when the plugin was unloaded, in  *)
(* the end nothing is open and nothing runs.                                 *)
THEOREM UnloadingClosesAll == PluginSpec => []UnloadClosesAll
<1>1. PluginInv => UnloadClosesAll
  <2> SUFFICES ASSUME PluginInv, unloaded, jobs = <<>>
               PROVE  ready = {} /\ \A e \in Engines : ~Busy(e) /\ base[e] # "open"
    BY DEF UnloadClosesAll
  <2>1. Len(jobs) = 0
    BY EmptySeq
  <2>2. \A e \in Engines : Closed(e)
    BY <2>1 DEF PluginInv, UnloadGoesOn, ClosedInTheEnd
  <2> QED BY <2>2 DEF Closed, PluginInv, PluginTypeOK
<1> QED BY <1>1, InvHolds, PTL
--------------------------------------------------------------------------------
(* The clock is set by the last job of an initialisation: until then the chain *)
(* ends with one that will set it, whatever came and went before.            *)
ClockIsRight == clock = (autoSync /\ ready # {})
TimersLast ==
    ~unloaded => IF jobs = <<>> THEN ClockIsRight ELSE jobs[Len(jobs)].do = "timers"

LEMMA InitJobsEnd == Len(InitJobs) \in Nat \ {0} /\ InitJobs[Len(InitJobs)].do = "timers"
<1> DEFINE s == Job("close", primary) \o Job("open", primary) \o Each("close") \o Each("open")
           t == Job("timers", primary)
<1>1. ForLater(s)
  BY LaterParts, LaterJoined
<1>2. t \in Seq(Jobs) /\ Len(t) = 1 /\ t[1].do = "timers"
  BY OneJob DEF Engines
<1>3. InitJobs = s \o t
  BY DEF InitJobs
<1> HIDE DEF s, t
<1>4. /\ Len(s \o t) = Len(s) + Len(t)
      /\ \A i \in 1..Len(s) + Len(t) : (s \o t)[i] = IF i <= Len(s) THEN s[i] ELSE t[i - Len(s)]
  BY <1>1, <1>2, ConcatProperties DEF ForLater
<1>5. Len(s) \in Nat
  BY <1>1 DEF ForLater
<1>6. (s \o t)[Len(s) + 1] = t[1]
  <2>1. Len(s) + 1 \in 1..Len(s) + Len(t) /\ ~(Len(s) + 1 <= Len(s)) /\ (Len(s) + 1) - Len(s) = 1
    BY <1>2, <1>5
  <2> QED BY <1>4, <2>1
<1> QED BY <1>2, <1>3, <1>4, <1>5, <1>6

(* When the first n jobs are done and one that sets the clock is not among   *)
(* them, one is still to come.                                               *)
LEMMA TimersToCome ==
    ASSUME Len(jobs) \in Nat, Len(jobs') \in Nat, NEW n \in {1, 2}, n < Len(jobs),
           Len(jobs') = Len(jobs) - n,
           \A i \in 1..Len(jobs') : jobs'[i] = jobs[i + n],
           jobs[Len(jobs)].do = "timers"
    PROVE  jobs' # <<>> /\ jobs'[Len(jobs')].do = "timers"
<1>1. Len(jobs') \in 1..Len(jobs') /\ Len(jobs') + n = Len(jobs) /\ Len(jobs') # 0
  OBVIOUS
<1>2. jobs' # <<>>
  <2>1. Len(<<>>) = 0
    OBVIOUS
  <2> QED BY <1>1, <2>1, Zenon
<1> QED BY <1>1, <1>2

LEMMA TwoJobsLess ==
    ASSUME jobs \in Seq(Jobs), Len(jobs) > 1
    PROVE  jobs' = Tail(Tail(jobs)) =>
               /\ Len(jobs') \in Nat /\ Len(jobs') = Len(jobs) - 2
               /\ \A i \in 1..Len(jobs') : jobs'[i] = jobs[i + 2]
<1> HAVE jobs' = Tail(Tail(jobs))
<1> DEFINE s == Tail(jobs)
<1>0. Len(jobs) \in Nat /\ jobs # <<>>
  BY EmptySeq
<1>1. /\ s \in Seq(Jobs) /\ Len(s) = Len(jobs) - 1
      /\ \A i \in 1..Len(s) : s[i] = jobs[i + 1]
  BY <1>0, HeadTailProperties
<1>2. jobs' = Tail(s)
  OBVIOUS
<1> HIDE DEF s
<1>3. Len(s) # 0 /\ s # <<>>
  BY <1>0, <1>1, EmptySeq
<1>4. /\ Len(jobs') = Len(s) - 1
      /\ \A i \in 1..Len(jobs') : jobs'[i] = s[i + 1]
  BY <1>1, <1>2, <1>3, HeadTailProperties
<1>5. Len(jobs') = Len(jobs) - 2 /\ Len(jobs') \in Nat
  BY <1>0, <1>1, <1>4
<1>6. ASSUME NEW i \in 1..Len(jobs')
      PROVE  jobs'[i] = jobs[i + 2]
  <2>1. i + 1 \in 1..Len(s) /\ (i + 1) + 1 = i + 2
    BY <1>0, <1>1, <1>5
  <2> QED BY <1>1, <1>4, <2>1
<1> QED BY <1>5, <1>6

LEMMA TimersStep ==
    ASSUME PluginInv, TimersLast, PluginNext
    PROVE  TimersLast'
<1>0. jobs \in Seq(Jobs) /\ OneUnderWay /\ Len(jobs) \in Nat /\ PluginTypeOK
  BY LenProperties DEF PluginInv, PluginTypeOK
<1>1. CASE Callback
  <2>1. UNCHANGED <<jobs, ready, unloaded>>
    BY <1>1, CallbackKeeps
  <2>2. UNCHANGED <<clock, autoSync>> \/ ClockIsRight'
    BY <1>1 DEF Callback, UserRuns, Answers, Writes, Ends, EndsAndAsks, EditsNote, ClockTicks,
       DebounceEnds, TogglesAutoSync, timerVars, lifeVars, ClockIsRight, Ticking
  <2> QED BY <2>1, <2>2 DEF TimersLast, ClockIsRight
<1>2. CASE Reconnects
  <2>1. /\ Len(InitJobs) \in Nat \ {0} /\ InitJobs[Len(InitJobs)].do = "timers"
        /\ Len(jobs') = Len(jobs) + Len(InitJobs)
        /\ \A i \in 1..Len(InitJobs) : jobs'[Len(jobs) + i] = InitJobs[i]
    BY <1>0, <1>2, InitJobsEnd, InitJobsLater, MoreJobs DEF Reconnects
  <2>2. jobs'[Len(jobs')].do = "timers" /\ Len(jobs') # 0
    BY <1>0, <2>1
  <2>3. jobs' # <<>>
    <3>1. Len(<<>>) = 0
      OBVIOUS
    <3> QED BY <2>2, <3>1, Zenon
  <2> QED BY <2>2, <2>3 DEF TimersLast
<1>3. CASE Unloads
  BY <1>3 DEF Unloads, TimersLast
<1>4. CASE SetsClock
  <2>1. /\ jobs # <<>> /\ jobs' = Tail(jobs) /\ ClockIsRight' /\ UNCHANGED unloaded
    BY <1>4 DEF SetsClock, Now, Done, ClockIsRight, Ticking
  <2>2. /\ Len(jobs) \in Nat \ {0} /\ Len(jobs') = Len(jobs) - 1 /\ jobs' \in Seq(Jobs)
        /\ \A i \in 1..Len(jobs') : jobs'[i] = jobs[i + 1]
    BY <1>0, <2>1, TheNextJob
  <2>3. CASE Len(jobs) = 1
    <3>1. jobs' = <<>>
      BY <2>2, <2>3, EmptySeq
    <3> QED BY <2>1, <3>1 DEF TimersLast
  <2>4. CASE Len(jobs) > 1
    <3>1. ~unloaded' => jobs[Len(jobs)].do = "timers"
      BY <2>1 DEF TimersLast
    <3>2. ~unloaded' => jobs' # <<>> /\ jobs'[Len(jobs')].do = "timers"
      BY <2>2, <2>4, <3>1, TimersToCome
    <3> QED BY <3>2 DEF TimersLast
  <2> QED BY <2>2, <2>3, <2>4
<1>5. ASSUME NEW e \in Engines, CloseBegins(e) \/ OpensBase(e)
      PROVE  TimersLast'
  <2>1. /\ jobs # <<>> /\ jobs[1].do \in {"close", "open"} /\ UNCHANGED unloaded
        /\ Then("shut", e) \/ Then("make", e)
    BY <1>5 DEF CloseBegins, OpensBase, Now
  <2>2. /\ Len(jobs) \in Nat \ {0} /\ Len(jobs') = Len(jobs)
        /\ \A i \in 2..Len(jobs') : jobs'[i] = jobs[i]
    BY <1>0, <2>1, TheJobGoesOn
  <2>3. ASSUME ~unloaded'
        PROVE  jobs' # <<>> /\ jobs'[Len(jobs')].do = "timers"
    <3>1. jobs[Len(jobs)].do = "timers"
      BY <2>1, <2>3 DEF TimersLast
    <3>2. Len(jobs) # 1
      BY <2>1, <3>1
    <3>3. Len(jobs') \in 2..Len(jobs') /\ Len(jobs') # 0
      BY <2>2, <3>2
    <3>4. Len(<<>>) = 0
      OBVIOUS
    <3>5. jobs' # <<>>
      BY <3>3, <3>4, Zenon
    <3> QED BY <2>2, <3>1, <3>3, <3>5
  <2> QED BY <2>3 DEF TimersLast
<1>6. ASSUME NEW e \in Engines, CloseEnds(e) \/ MakesController(e) \/ OpenFails(e) \/ CloseFails(e)
      PROVE  TimersLast'
  <2>1. /\ jobs # <<>> /\ jobs[1].do \in {"shut", "open", "make"} /\ UNCHANGED unloaded
    BY <1>6 DEF CloseEnds, CloseFails, MakesController, OpenFails, Stopped, Now
  <2>2. ASSUME ~unloaded
        PROVE  Len(jobs) > 1 /\ jobs[Len(jobs)].do = "timers"
    <3>1. jobs[Len(jobs)].do = "timers" /\ Len(jobs) # 0
      BY <2>1, <2>2, <1>0, EmptySeq DEF TimersLast
    <3> QED BY <1>0, <2>1, <3>1
  <2>3. CASE jobs' = Tail(jobs)
    <3>1. /\ Len(jobs') \in Nat /\ Len(jobs') = Len(jobs) - 1
          /\ \A i \in 1..Len(jobs') : jobs'[i] = jobs[i + 1]
      BY <1>0, <2>1, <2>3, TheNextJob
    <3>2. ~unloaded => jobs' # <<>> /\ jobs'[Len(jobs')].do = "timers"
      BY <1>0, <2>2, <3>1, TimersToCome
    <3> QED BY <2>1, <3>2 DEF TimersLast
  <2>4. CASE jobs' # Tail(jobs)
    <3>1. Len(jobs) > 1 /\ jobs[2].do = "open" /\ jobs' = Tail(Tail(jobs))
      BY <1>6, <2>4 DEF CloseEnds, CloseFails, MakesController, OpenFails, Done
    <3>2. /\ Len(jobs') \in Nat /\ Len(jobs') = Len(jobs) - 2
          /\ \A i \in 1..Len(jobs') : jobs'[i] = jobs[i + 2]
      BY <1>0, <2>1, <3>1, TwoJobsLess
    <3>3. ~unloaded => Len(jobs) > 2
      BY <1>0, <2>2, <3>1
    <3>4. ~unloaded => jobs' # <<>> /\ jobs'[Len(jobs')].do = "timers"
      BY <1>0, <2>2, <3>2, <3>3, TimersToCome
    <3> QED BY <2>1, <3>4 DEF TimersLast
  <2> QED BY <2>3, <2>4
<1> QED BY <1>1, <1>2, <1>3, <1>4, <1>5, <1>6, NextSplit DEF OpeningOrClosing

(* Whatever order the setting is changed in and connections come and go in,  *)
(* when the chain has come to its end and the plugin is loaded the periodic  *)
(* sync runs if it is asked for and some connection is open, and not else.   *)
THEOREM ClockAlwaysRuns == PluginSpec => []ClockRuns
<1>1. PluginInit => TimersLast
  BY InitJobsEnd, EmptySeq DEF PluginInit, TimersLast
<1>2. PluginInv /\ TimersLast /\ [PluginNext]_pluginVars => TimersLast'
  <2> SUFFICES ASSUME PluginInv, TimersLast, [PluginNext]_pluginVars PROVE TimersLast'
    OBVIOUS
  <2>1. CASE UNCHANGED pluginVars
    BY <2>1 DEF TimersLast, ClockIsRight, pluginVars, timerVars, lifeVars
  <2> QED BY <2>1, TimersStep
<1>3. TimersLast => ClockRuns
  BY DEF TimersLast, ClockIsRight, ClockRuns
<1> QED BY <1>1, <1>2, <1>3, InvHolds, PTL DEF PluginSpec

--------------------------------------------------------------------------------

(* NotionRequests.                                                           *)

(* The next place lies behind all the places taken, those still waited for and those *)
(* requests went out from, and no two of them are near each other.                   *)
Waiting(c) == phase[c] = "placed"
Scheduled ==
    /\ \A p \in places : p + Interval <= next
    /\ \A c \in Calls : Waiting(c) =>
          /\ until[c] + Interval <= next
          /\ \A p \in places : Apart(p, until[c])
    /\ \A c, d \in Calls : Waiting(c) /\ Waiting(d) /\ c # d => Apart(until[c], until[d])

(* The common rest lasts at least as long as any rejection asked. *)
RestIsLong == asked <= cooldown

(* A call backs off only if it may be sent again. *)
RetriesLeft == \A c \in Calls : phase[c] = "backoff" => attempt[c] < MaxRetries

RequestsInv == RequestsTypeOK /\ RetriesLeft /\ AppliedOnce /\ Scheduled /\ RestIsLong
--------------------------------------------------------------------------------
Holding == {"resting", "placed", "out"}

LEMMA HoldersAreFinite == IsFiniteSet(Holders) /\ Cardinality(Holders) \in Nat
<1>1. Holders \subseteq Calls /\ IsFiniteSet(Calls)
  BY RequestsAssumption DEF Holders
<1> QED BY <1>1, FS_Subset, FS_CardinalityType

(* A call that holds a slot may go on holding it; one that holds none gets none. *)
LEMMA NoSlotTaken ==
    ASSUME RequestsTypeOK, NEW c \in Calls, NEW to \in Phases, GoesTo(c, to),
           phase[c] \in Holding \/ to \notin Holding
    PROVE  Cardinality(Holders)' <= Slots
<1>1. Holders' \subseteq Holders
  BY DEF Holders, Holding, GoesTo, RequestsTypeOK
<1>2. Cardinality(Holders') <= Cardinality(Holders) /\ Cardinality(Holders') \in Nat
  BY <1>1, HoldersAreFinite, FS_Subset, FS_CardinalityType
<1> QED BY <1>2, HoldersAreFinite, RequestsAssumption DEF RequestsTypeOK

(* The semaphore gives a slot only while there is one. *)
LEMMA SlotTaken ==
    ASSUME RequestsTypeOK, NEW c \in Calls, NEW to \in Phases, GoesTo(c, to), Room
    PROVE  Cardinality(Holders)' <= Slots
<1>1. Holders' \subseteq Holders \cup {c}
  BY DEF Holders, GoesTo, RequestsTypeOK
<1>2. /\ IsFiniteSet(Holders \cup {c})
      /\ Cardinality(Holders \cup {c}) <= Cardinality(Holders) + 1
      /\ Cardinality(Holders \cup {c}) \in Nat
  BY HoldersAreFinite, FS_AddElement, FS_CardinalityType
<1>3. Cardinality(Holders') <= Cardinality(Holders \cup {c}) /\ Cardinality(Holders') \in Nat
  BY <1>1, <1>2, FS_Subset, FS_CardinalityType
<1> QED BY <1>2, <1>3, HoldersAreFinite, RequestsAssumption DEF Room, RequestsTypeOK

LEMMA LaterType == ASSUME NEW s \in Nat, NEW t \in Nat
                   PROVE  Later(s, t) \in Nat /\ Later(s, t) >= s /\ Later(s, t) >= t
BY DEF Later

LEMMA BackoffType ==
    ASSUME RequestsTypeOK, NEW c \in Calls, NEW wait \in Nat, NEW pause \in Backoffs(c, wait)
    PROVE  pause \in Nat /\ wait <= pause
<1>1. attempt[c] \in Nat
  BY RequestsAssumption DEF RequestsTypeOK
<1> QED BY <1>1 DEF Backoffs

LEMMA SleepType ==
    ASSUME RequestsTypeOK, NEW c \in Calls, NEW to \in Phases, NEW t \in Nat, Sleeps(c, to, t)
    PROVE  phase' \in [Calls -> Phases] /\ until' \in [Calls -> Nat]
BY DEF RequestsTypeOK, Sleeps, GoesTo
--------------------------------------------------------------------------------
LEMMA InitInv == RequestsInit => RequestsInv
<1> SUFFICES ASSUME RequestsInit PROVE RequestsInv
  OBVIOUS
<1>1. Holders = {}
  BY DEF RequestsInit, Holders
<1>2. Cardinality(Holders) <= Slots
  BY <1>1, FS_EmptySet, RequestsAssumption
<1>3. RequestsTypeOK
  BY <1>2, RequestsAssumption DEF RequestsInit, RequestsTypeOK, Phases
<1>4. AppliedOnce
  BY RequestsAssumption DEF RequestsInit, AppliedOnce
<1>5. Scheduled /\ RestIsLong /\ RetriesLeft
  BY DEF RequestsInit, Scheduled, Waiting, RestIsLong, RetriesLeft
<1> QED BY <1>3, <1>4, <1>5 DEF RequestsInv

(* A call that takes its turn rests or is placed. *)
LEMMA TurnType ==
    ASSUME RequestsTypeOK, NEW c \in Calls, TakesTurn(c) \/ TakesPlace(c)
    PROVE  /\ \E to \in {"resting", "placed"} : GoesTo(c, to)
           /\ phase' \in [Calls -> Phases] /\ until' \in [Calls -> Nat] /\ next' \in Nat
<1>1. now \in Nat /\ next \in Nat /\ cooldown \in Nat
  BY RequestsAssumption DEF RequestsTypeOK
<1>4. Later(now, next) \in Nat
  BY <1>1 DEF Later
<1>2. CASE TakesPlace(c)
  <2>1. next' \in Nat
    BY <1>2, <1>4, RequestsAssumption DEF TakesPlace
  <2> QED BY <1>2, <1>4, <2>1, SleepType DEF TakesPlace, Sleeps, Phases
<1>3. CASE ~TakesPlace(c)
  <2>1. Sleeps(c, "resting", cooldown) /\ next' = next
    BY <1>3 DEF TakesTurn
  <2> QED BY <1>1, <2>1, SleepType DEF Sleeps, Phases
<1> QED BY <1>2, <1>3

LEMMA StepType ==
    ASSUME RequestsTypeOK, RetriesLeft, RequestsNext
    PROVE  RequestsTypeOK'
<1> USE DEF callVars, gateVars
<1>0. now \in Nat /\ 0..MaxTime \subseteq Nat /\ Recheck \in Nat
  BY RequestsAssumption DEF RequestsTypeOK
<1>1. ASSUME NEW c \in Calls, Starts(c) PROVE RequestsTypeOK'
  <2>1. \E to \in {"refused", "queued"} : GoesTo(c, to)
    BY <1>1 DEF Starts
  <2>2. phase' \in [Calls -> Phases] /\ Cardinality(Holders)' <= Slots
    BY <2>1, NoSlotTaken DEF Holding, Phases, Ended, GoesTo, RequestsTypeOK
  <2> QED BY <1>1, <2>2 DEF Starts, RequestsTypeOK
<1>2. ASSUME NEW c \in Calls, Acquires(c) PROVE RequestsTypeOK'
  <2>1. Cardinality(Holders)' <= Slots
    BY <1>2, TurnType, SlotTaken DEF Acquires, Phases
  <2> QED BY <1>2, <2>1, TurnType DEF Acquires, RequestsTypeOK
<1>3. ASSUME NEW c \in Calls, Rested(c) PROVE RequestsTypeOK'
  <2>1. Cardinality(Holders)' <= Slots
    BY <1>3, TurnType, NoSlotTaken DEF Rested, Phases, Holding
  <2> QED BY <1>3, <2>1, TurnType DEF Rested, RequestsTypeOK
<1>4. ASSUME NEW c \in Calls, GoesOut(c) PROVE RequestsTypeOK'
  <2>1. \E to \in {"out", "resting"} : GoesTo(c, to)
    BY <1>4 DEF GoesOut, Sleeps
  <2>2. phase' \in [Calls -> Phases] /\ Cardinality(Holders)' <= Slots
    BY <1>4, <2>1, NoSlotTaken DEF GoesOut, Holding, Phases, GoesTo, RequestsTypeOK
  <2>3. CASE Clear
    <3>1. until[c] \in Nat /\ places' = places \cup {until[c]} /\ until' = until
      BY <1>4, <2>3 DEF GoesOut, RequestsTypeOK
    <3> QED BY <1>4, <2>2, <3>1 DEF GoesOut, RequestsTypeOK
  <2>4. CASE ~Clear
    <3>1. until' \in [Calls -> Nat] /\ places' = places
      BY <1>4, <2>4 DEF GoesOut, Sleeps, RequestsTypeOK
    <3> QED BY <1>4, <2>2, <3>1 DEF GoesOut, RequestsTypeOK
  <2> QED BY <2>3, <2>4
<1>5. ASSUME NEW c \in Calls, Succeeds(c) PROVE RequestsTypeOK'
  <2>1. phase' \in [Calls -> Phases] /\ Cardinality(Holders)' <= Slots
    BY <1>5, NoSlotTaken DEF Succeeds, Holding, Phases, Ended, GoesTo, RequestsTypeOK
  <2>2. applied' \in [Calls -> Nat]
    BY <1>5 DEF Succeeds, RequestsTypeOK
  <2> QED BY <1>5, <2>1, <2>2 DEF Succeeds, RequestsTypeOK
<1>6. ASSUME NEW c \in Calls, Refused(c) PROVE RequestsTypeOK'
  <2>1. phase' \in [Calls -> Phases] /\ Cardinality(Holders)' <= Slots
    BY <1>6, NoSlotTaken DEF Refused, Holding, Phases, Ended, GoesTo, RequestsTypeOK
  <2> QED BY <1>0, <1>6, <2>1 DEF Refused, RequestsTypeOK
<1>7. ASSUME NEW c \in Calls, NEW wait \in Waits, NEW pause \in Backoffs(c, wait),
             Rejected(c, wait, pause)
      PROVE  RequestsTypeOK'
  <2>1. wait \in Nat /\ pause \in Nat
    BY RequestsAssumption, BackoffType
  <2>2. now + pause \in Nat /\ now + wait \in Nat
    BY <1>0, <2>1
  <2>3. \E to \in {"backoff", "refused"} : GoesTo(c, to)
    BY <1>7 DEF Rejected, Sleeps
  <2>4. phase' \in [Calls -> Phases] /\ Cardinality(Holders)' <= Slots
    BY <1>7, <2>3, NoSlotTaken DEF Rejected, Holding, Phases, Ended, GoesTo, RequestsTypeOK
  <2>5. until' \in [Calls -> Nat] /\ cooldown' \in Nat /\ asked' \in Nat
    BY <1>7, <2>2, LaterType DEF Rejected, Sleeps, RequestsTypeOK
  <2> QED BY <1>7, <2>4, <2>5 DEF Rejected, RequestsTypeOK
<1>8. ASSUME NEW c \in Calls, NEW did \in {0, 1}, NEW pause \in Backoffs(c, 0),
             NoAnswer(c, did, pause)
      PROVE  RequestsTypeOK'
  <2>1. now + pause \in Nat
    BY <1>0, BackoffType
  <2>2. \E to \in {"backoff", "lost"} : GoesTo(c, to)
    BY <1>8 DEF NoAnswer, Sleeps
  <2>3. phase' \in [Calls -> Phases] /\ Cardinality(Holders)' <= Slots
    BY <1>8, <2>2, NoSlotTaken DEF NoAnswer, Holding, Phases, Ended, GoesTo, RequestsTypeOK
  <2>4. until' \in [Calls -> Nat] /\ applied' \in [Calls -> Nat]
    BY <1>8, <2>1 DEF NoAnswer, Sleeps, RequestsTypeOK
  <2> QED BY <1>8, <2>3, <2>4 DEF NoAnswer, RequestsTypeOK
<1>9. ASSUME NEW c \in Calls, Retries(c) PROVE RequestsTypeOK'
  <2>1. phase' \in [Calls -> Phases] /\ Cardinality(Holders)' <= Slots
    BY <1>9, NoSlotTaken DEF Retries, Holding, Phases, GoesTo, RequestsTypeOK
  <2>2. attempt[c] \in 0..MaxRetries /\ attempt[c] < MaxRetries
    BY <1>9 DEF Retries, RequestsTypeOK, RetriesLeft
  <2>3. attempt' \in [Calls -> 0..MaxRetries]
    BY <1>9, <2>2, RequestsAssumption DEF Retries, RequestsTypeOK
  <2> QED BY <1>9, <2>1, <2>3 DEF Retries, RequestsTypeOK
<1>10. CASE TimePasses
  <2>1. now' \in 0..MaxTime
    BY <1>10, RequestsAssumption DEF TimePasses, RequestsTypeOK
  <2>2. Holders' = Holders
    BY <1>10 DEF TimePasses, Holders
  <2> QED BY <1>10, <2>1, <2>2 DEF TimePasses, RequestsTypeOK
<1>11. ASSUME NEW c \in Calls, Concludes(c) PROVE RequestsTypeOK'
  <2>1. \/ Succeeds(c) \/ Refused(c)
        \/ \E wait \in Waits : \E pause \in Backoffs(c, wait) : Rejected(c, wait, pause)
        \/ \E did \in {0, 1}, pause \in Backoffs(c, 0) : NoAnswer(c, did, pause)
    BY <1>11 DEF Concludes
  <2> QED BY <1>5, <1>6, <1>7, <1>8, <2>1
<1> QED BY <1>1, <1>2, <1>3, <1>4, <1>9, <1>10, <1>11 DEF RequestsNext

LEMMA StepRetries ==
    ASSUME RequestsTypeOK, RetriesLeft, RequestsNext
    PROVE  RetriesLeft'
<1> USE DEF callVars, gateVars
<1>0. phase \in [Calls -> Phases] /\ attempt \in [Calls -> 0..MaxRetries]
  BY DEF RequestsTypeOK
(* A step that does not begin a backoff, and one that may. *)
<1>a. ASSUME NEW c \in Calls, NEW to \in Phases, GoesTo(c, to), attempt' = attempt,
             to = "backoff" => attempt[c] < MaxRetries
      PROVE  RetriesLeft'
  BY <1>0, <1>a DEF GoesTo, RetriesLeft
<1>1. ASSUME NEW c \in Calls, Starts(c) PROVE RetriesLeft'
  <2>1. \E to \in {"refused", "queued"} : GoesTo(c, to)
    BY <1>1 DEF Starts
  <2> QED BY <1>1, <1>a, <2>1 DEF Starts, Phases, Ended
<1>2. ASSUME NEW c \in Calls, Acquires(c) \/ Rested(c) PROVE RetriesLeft'
  BY <1>2, <1>a, TurnType DEF Acquires, Rested, Phases
<1>3. ASSUME NEW c \in Calls, GoesOut(c) PROVE RetriesLeft'
  <2>1. \E to \in {"out", "resting"} : GoesTo(c, to)
    BY <1>3 DEF GoesOut, Sleeps
  <2> QED BY <1>3, <1>a, <2>1 DEF GoesOut, Phases
<1>4. ASSUME NEW c \in Calls, Concludes(c) PROVE RetriesLeft'
  <2>1. attempt' = attempt
    BY <1>4 DEF Concludes, Succeeds, Refused, Rejected, NoAnswer
  <2>2. \E to \in Ended \cup {"backoff"} :
           GoesTo(c, to) /\ (to = "backoff" => attempt[c] < MaxRetries)
    BY <1>4 DEF Concludes, Succeeds, Refused, Rejected, NoAnswer, Sleeps, Ended
  <2> QED BY <1>a, <2>1, <2>2 DEF Phases
<1>5. ASSUME NEW c \in Calls, Retries(c) PROVE RetriesLeft'
  BY <1>0, <1>5 DEF Retries, GoesTo, RetriesLeft
<1>6. CASE TimePasses
  BY <1>6 DEF TimePasses, RetriesLeft
<1> QED BY <1>1, <1>2, <1>3, <1>4, <1>5, <1>6 DEF RequestsNext

(* A call that must not be applied twice is sent again only after a clear refusal. *)
LEMMA StepApplied ==
    ASSUME RequestsTypeOK, AppliedOnce, RequestsNext
    PROVE  AppliedOnce'
<1> USE DEF callVars, gateVars
<1>0. /\ Once \subseteq Calls
      /\ phase \in [Calls -> Phases] /\ applied \in [Calls -> Nat]
  BY RequestsAssumption DEF RequestsTypeOK
(* A step that applies nothing and ends nothing as done keeps the count. *)
<1>a. ASSUME NEW c \in Calls, NEW to \in Phases \ {"done"}, phase[c] \notin {"done", "lost"},
             GoesTo(c, to), applied' = applied
      PROVE  AppliedOnce'
  BY <1>0, <1>a DEF GoesTo, AppliedOnce
<1>1. ASSUME NEW c \in Calls, Starts(c) PROVE AppliedOnce'
  <2>1. \E to \in {"refused", "queued"} : GoesTo(c, to)
    BY <1>1 DEF Starts
  <2> QED BY <1>1, <1>a, <2>1 DEF Starts, Phases, Ended
<1>2. ASSUME NEW c \in Calls, Acquires(c) PROVE AppliedOnce'
  BY <1>2, <1>a, TurnType DEF Acquires, Phases
<1>3. ASSUME NEW c \in Calls, Rested(c) PROVE AppliedOnce'
  BY <1>3, <1>a, TurnType DEF Rested, Phases
<1>4. ASSUME NEW c \in Calls, GoesOut(c) PROVE AppliedOnce'
  <2>1. \E to \in {"out", "resting"} : GoesTo(c, to)
    BY <1>4 DEF GoesOut, Sleeps
  <2> QED BY <1>4, <1>a, <2>1 DEF GoesOut, Phases
<1>5. ASSUME NEW c \in Calls, Succeeds(c) PROVE AppliedOnce'
  BY <1>0, <1>5 DEF Succeeds, GoesTo, AppliedOnce
<1>6. ASSUME NEW c \in Calls, Refused(c) PROVE AppliedOnce'
  BY <1>6, <1>a DEF Refused, Phases, Ended
<1>7. ASSUME NEW c \in Calls, NEW wait \in Waits, NEW pause \in Backoffs(c, wait),
             Rejected(c, wait, pause)
      PROVE  AppliedOnce'
  <2>1. \E to \in {"backoff", "refused"} : GoesTo(c, to)
    BY <1>7 DEF Rejected, Sleeps
  <2> QED BY <1>7, <1>a, <2>1 DEF Rejected, Phases, Ended
<1>8. ASSUME NEW c \in Calls, NEW did \in {0, 1}, NEW pause \in Backoffs(c, 0),
             NoAnswer(c, did, pause)
      PROVE  AppliedOnce'
  <2>1. CASE c \in Once
    <3>1. GoesTo(c, "lost") /\ applied[c] = 0
      BY <1>8, <2>1 DEF NoAnswer, MayRepeat, AppliedOnce
    <3>2. applied' = [applied EXCEPT ![c] = @ + did]
      BY <1>8 DEF NoAnswer
    <3> QED BY <1>0, <3>1, <3>2 DEF GoesTo, AppliedOnce
  <2>2. CASE c \notin Once
    <3>1. \A d \in Once : applied'[d] = applied[d]
      BY <1>0, <1>8, <2>2 DEF NoAnswer
    <3>2. \A d \in Once : phase'[d] = phase[d]
      BY <1>0, <1>8, <2>2 DEF NoAnswer, Sleeps, GoesTo
    <3> QED BY <3>1, <3>2 DEF AppliedOnce
  <2> QED BY <2>1, <2>2
<1>9. ASSUME NEW c \in Calls, Retries(c) PROVE AppliedOnce'
  BY <1>9, <1>a DEF Retries, Phases
<1>10. CASE TimePasses
  BY <1>10 DEF TimePasses, AppliedOnce
<1>11. ASSUME NEW c \in Calls, Concludes(c) PROVE AppliedOnce'
  <2>1. \/ Succeeds(c) \/ Refused(c)
        \/ \E wait \in Waits : \E pause \in Backoffs(c, wait) : Rejected(c, wait, pause)
        \/ \E did \in {0, 1}, pause \in Backoffs(c, 0) : NoAnswer(c, did, pause)
    BY <1>11 DEF Concludes
  <2> QED BY <1>5, <1>6, <1>7, <1>8, <2>1
<1> QED BY <1>1, <1>2, <1>3, <1>4, <1>9, <1>10, <1>11 DEF RequestsNext

--------------------------------------------------------------------------------
(* A step that takes no place, and puts no call to wait for one, leaves the schedule *)
(* as it was.                                                                        *)
LEMMA SameSchedule ==
    ASSUME Scheduled, next' = next, places' = places,
           \A c \in Calls : Waiting(c)' => Waiting(c) /\ until'[c] = until[c]
    PROVE  Scheduled'
BY DEF Scheduled, Waiting, Apart

(* The new place lies behind all others. *)
LEMMA PlaceTaken ==
    ASSUME RequestsTypeOK, Scheduled, NEW c \in Calls, ~Waiting(c), TakesPlace(c), UNCHANGED places
    PROVE  Scheduled'
<1> DEFINE at == Later(now, next)
<1>1. at \in Nat /\ next <= at /\ next \in Nat /\ Interval \in Nat
  BY RequestsAssumption DEF RequestsTypeOK, Later
<1>2. /\ next' = at + Interval /\ places' = places
      /\ phase' = [phase EXCEPT ![c] = "placed"] /\ until' = [until EXCEPT ![c] = at]
  BY DEF TakesPlace, Sleeps, GoesTo
<1>3. phase \in [Calls -> Phases] /\ until \in [Calls -> Nat] /\ places \subseteq Nat
  BY DEF RequestsTypeOK
<1> HIDE DEF at
<1>4. until'[c] = at /\ \A d \in Calls \ {c} : until'[d] = until[d] /\ phase'[d] = phase[d]
  BY <1>2, <1>3
<1>5. \A p \in places : p \in Nat /\ p + Interval <= next
  BY <1>3 DEF Scheduled
<1>6. \A d \in Calls : Waiting(d) => until[d] \in Nat /\ until[d] + Interval <= next
  BY <1>3 DEF Scheduled
<1>7. \A p \in places' : p + Interval <= next'
  BY <1>1, <1>2, <1>5
<1>8. ASSUME NEW d \in Calls, Waiting(d)'
      PROVE  until'[d] + Interval <= next' /\ \A p \in places' : Apart(p, until'[d])
  <2>1. CASE d = c
    BY <1>1, <1>2, <1>4, <1>5, <2>1 DEF Apart
  <2>2. CASE d # c
    <3>1. Waiting(d) /\ until'[d] = until[d]
      BY <1>4, <1>8, <2>2 DEF Waiting
    <3>2. \A p \in places : Apart(p, until[d])
      BY <3>1 DEF Scheduled
    <3> QED BY <1>1, <1>2, <1>6, <3>1, <3>2 DEF Apart
  <2> QED BY <2>1, <2>2
<1>9. ASSUME NEW d \in Calls, NEW e \in Calls, Waiting(d)', Waiting(e)', d # e
      PROVE  Apart(until'[d], until'[e])
  <2>1. CASE d = c
    <3>1. Waiting(e) /\ until'[e] = until[e]
      BY <1>4, <1>9, <2>1 DEF Waiting
    <3> QED BY <1>1, <1>4, <1>6, <2>1, <3>1 DEF Apart
  <2>2. CASE e = c
    <3>1. Waiting(d) /\ until'[d] = until[d]
      BY <1>4, <1>9, <2>2 DEF Waiting
    <3> QED BY <1>1, <1>4, <1>6, <2>2, <3>1 DEF Apart
  <2>3. CASE d # c /\ e # c
    <3>1. Waiting(d) /\ Waiting(e) /\ until'[d] = until[d] /\ until'[e] = until[e]
      BY <1>4, <1>9, <2>3 DEF Waiting
    <3> QED BY <1>9, <3>1 DEF Scheduled, Apart
  <2> QED BY <2>1, <2>2, <2>3
<1> QED BY <1>7, <1>8, <1>9 DEF Scheduled, Apart

LEMMA StepScheduled ==
    ASSUME RequestsTypeOK, Scheduled, RequestsNext
    PROVE  Scheduled'
<1> USE DEF callVars, gateVars
<1>0. /\ phase \in [Calls -> Phases] /\ until \in [Calls -> Nat]
      /\ places \subseteq Nat /\ next \in Nat /\ Interval \in Nat
  BY RequestsAssumption DEF RequestsTypeOK
(* A call that goes anywhere but to a place; where it slept until does not matter. *)
<1>a. ASSUME NEW c \in Calls, NEW to \in Phases \ {"placed"}, GoesTo(c, to),
             \A d \in Calls \ {c} : until'[d] = until[d], next' = next, places' = places
      PROVE  Scheduled'
  <2>1. \A d \in Calls : Waiting(d)' => Waiting(d) /\ until'[d] = until[d]
    BY <1>0, <1>a DEF GoesTo, Waiting
  <2> QED BY <1>a, <2>1, SameSchedule
<1>b. ASSUME NEW c \in Calls, NEW to \in Phases, NEW t, Sleeps(c, to, t)
      PROVE  \A d \in Calls \ {c} : until'[d] = until[d]
  BY <1>0, <1>b DEF Sleeps
<1>1. ASSUME NEW c \in Calls, Starts(c) PROVE Scheduled'
  <2>1. \E to \in {"refused", "queued"} : GoesTo(c, to)
    BY <1>1 DEF Starts
  <2> QED BY <1>1, <1>a, <2>1 DEF Starts, Phases, Ended
<1>2. ASSUME NEW c \in Calls, Acquires(c) PROVE Scheduled'
  <2>1. CASE TakesPlace(c)
    BY <1>2, <2>1, PlaceTaken DEF Acquires, Waiting
  <2>2. CASE ~TakesPlace(c)
    <3>1. Sleeps(c, "resting", cooldown) /\ next' = next /\ places' = places
      BY <1>2, <2>2 DEF Acquires, TakesTurn
    <3> QED BY <1>a, <1>b, <3>1 DEF Sleeps, Phases
  <2> QED BY <2>1, <2>2
<1>3. ASSUME NEW c \in Calls, Rested(c) PROVE Scheduled'
  BY <1>3, PlaceTaken DEF Rested, Waiting
<1>4. ASSUME NEW c \in Calls, GoesOut(c) PROVE Scheduled'
  <2>1. CASE Clear
    <3>1. /\ Waiting(c) /\ phase' = [phase EXCEPT ![c] = "out"] /\ until' = until
          /\ next' = next /\ places' = places \cup {until[c]}
      BY <1>4, <2>1 DEF GoesOut, GoesTo, Waiting
    <3>2. \A d \in Calls : Waiting(d)' => Waiting(d) /\ d # c
      BY <1>0, <3>1 DEF Waiting
    <3>3. \A p \in places' : p + Interval <= next'
      BY <3>1 DEF Scheduled
    <3>4. \A d \in Calls : Waiting(d)' => \A p \in places' : Apart(p, until'[d])
      BY <3>1, <3>2 DEF Scheduled, Apart
    <3> QED BY <3>1, <3>2, <3>3, <3>4 DEF Scheduled, Apart
  <2>2. CASE ~Clear
    <3>1. Sleeps(c, "resting", cooldown) /\ next' = next /\ places' = places
      BY <1>4, <2>2 DEF GoesOut
    <3> QED BY <1>a, <1>b, <3>1 DEF Sleeps, Phases
  <2> QED BY <2>1, <2>2
<1>5. ASSUME NEW c \in Calls, Concludes(c) PROVE Scheduled'
  <2>1. next' = next /\ places' = places
    BY <1>5 DEF Concludes, Succeeds, Refused, Rejected, NoAnswer
  <2>2. \E to \in Ended \cup {"backoff"} : GoesTo(c, to)
    BY <1>5 DEF Concludes, Succeeds, Refused, Rejected, NoAnswer, Sleeps, Ended
  <2>3. \A d \in Calls \ {c} : until'[d] = until[d]
    BY <1>0, <1>5 DEF Concludes, Succeeds, Refused, Rejected, NoAnswer, Sleeps
  <2> QED BY <1>a, <2>1, <2>2, <2>3 DEF Phases, Ended
<1>6. ASSUME NEW c \in Calls, Retries(c) PROVE Scheduled'
  BY <1>6, <1>a DEF Retries, Phases
<1>7. CASE TimePasses
  BY <1>7, SameSchedule DEF TimePasses, Waiting
<1> QED BY <1>1, <1>2, <1>3, <1>4, <1>5, <1>6, <1>7 DEF RequestsNext

LEMMA StepRest ==
    ASSUME RequestsTypeOK, RestIsLong, RequestsNext
    PROVE  RestIsLong'
<1> USE DEF callVars, gateVars
<1>0. now \in Nat /\ asked \in Nat /\ cooldown \in Nat
  BY RequestsAssumption DEF RequestsTypeOK
<1>1. ASSUME NEW c \in Calls, NEW wait \in Waits, NEW pause \in Backoffs(c, wait),
             Rejected(c, wait, pause)
      PROVE  RestIsLong'
  <2>1. wait \in Nat /\ pause \in Nat /\ wait <= pause
    BY RequestsAssumption, BackoffType
  <2> QED BY <1>0, <1>1, <2>1 DEF Rejected, Later, RestIsLong
<1>2. ASSUME NEW c \in Calls, Concludes(c), UNCHANGED <<cooldown, asked>> PROVE RestIsLong'
  BY <1>2 DEF RestIsLong
<1>3. ASSUME NEW c \in Calls, Concludes(c) PROVE RestIsLong'
  BY <1>1, <1>2, <1>3 DEF Concludes, Succeeds, Refused, NoAnswer
<1>4. ASSUME NEW c \in Calls, Starts(c) \/ Acquires(c) \/ Rested(c) \/ GoesOut(c) \/ Retries(c)
      PROVE  RestIsLong'
  BY <1>4 DEF Starts, Acquires, Rested, GoesOut, Retries, RestIsLong
<1>5. CASE TimePasses
  BY <1>5 DEF TimePasses, RestIsLong
<1> QED BY <1>3, <1>4, <1>5 DEF RequestsNext

LEMMA StepInv == RequestsInv /\ [RequestsNext]_requestVars => RequestsInv'
<1>1. ASSUME RequestsInv, RequestsNext PROVE RequestsInv'
  BY <1>1, StepType, StepRetries, StepApplied, StepScheduled, StepRest DEF RequestsInv
<1>2. ASSUME RequestsInv, UNCHANGED requestVars PROVE RequestsInv'
  BY <1>2 DEF RequestsInv, requestVars, callVars, gateVars, RequestsTypeOK, RetriesLeft,
     AppliedOnce, Scheduled, RestIsLong, Waiting, Apart, Holders
<1> QED BY <1>1, <1>2

(* A call goes out from the place it waited for, when the rest is over. *)
LEMMA GoesOutInTurn ==
    ASSUME RequestsInv, RequestsNext, NEW c \in Calls, GoingOut(c)
    PROVE  /\ until[c] <= now /\ asked <= now
           /\ \A p \in places : Apart(p, until[c])
<1> USE DEF callVars, gateVars
<1>0. phase \in [Calls -> Phases]
  BY DEF RequestsInv, RequestsTypeOK
<1>1. ASSUME NEW d \in Calls, NEW to \in Phases \ {"out"}, GoesTo(d, to) PROVE FALSE
  BY <1>0, <1>1 DEF GoesTo, GoingOut
<1>2. ~TimePasses
  BY DEF TimePasses, GoingOut
<1>3. ASSUME NEW d \in Calls, Starts(d) \/ Acquires(d) \/ Rested(d) \/ Concludes(d) \/ Retries(d)
      PROVE  FALSE
  <2>1. CASE Starts(d)
    BY <1>1, <2>1 DEF Starts, Phases, Ended
  <2>2. CASE Acquires(d) \/ Rested(d)
    BY <1>1, <2>2, TurnType DEF Acquires, Rested, Phases, RequestsInv
  <2>3. CASE Concludes(d)
    <3>1. \E to \in Ended \cup {"backoff"} : GoesTo(d, to)
      BY <2>3 DEF Concludes, Succeeds, Refused, Rejected, NoAnswer, Sleeps, Ended
    <3> QED BY <1>1, <3>1 DEF Phases, Ended
  <2>4. CASE Retries(d)
    BY <1>1, <2>4 DEF Retries, Phases
  <2> QED BY <1>3, <2>1, <2>2, <2>3, <2>4
<1>4. PICK d \in Calls : GoesOut(d)
  BY <1>2, <1>3 DEF RequestsNext
<1>5. Clear
  <2>1. ASSUME ~Clear PROVE FALSE
    BY <1>1, <1>4, <2>1 DEF GoesOut, Sleeps, Phases
  <2> QED BY <2>1
<1>6. d = c
  BY <1>0, <1>4, <1>5 DEF GoesOut, GoesTo, GoingOut
<1>7. Waiting(c) /\ until[c] <= now
  BY <1>4, <1>6 DEF GoesOut, Waiting
<1>8. asked <= now
  BY <1>5, RequestsAssumption DEF Clear, RequestsInv, RestIsLong, RequestsTypeOK
<1> QED BY <1>7, <1>8 DEF RequestsInv, Scheduled
--------------------------------------------------------------------------------
(* Every state has the declared types, and no more calls hold a slot than there are. *)
THEOREM RequestsTypes == RequestsSpec => []RequestsTypeOK
<1>1. RequestsInv => RequestsTypeOK
  BY DEF RequestsInv
<1> QED BY <1>1, InitInv, StepInv, PTL DEF RequestsSpec

(* Whatever is lost, rejected and sent again, a call that must not be applied twice  *)
(* is applied at most once, and not at all when it ends with a clear refusal.        *)
THEOREM CallsAppliedOnce == RequestsSpec => []AppliedOnce
<1>1. RequestsInv => AppliedOnce
  BY DEF RequestsInv
<1> QED BY <1>1, InitInv, StepInv, PTL DEF RequestsSpec

(* Every request goes out from a place of its own, an interval away from any other,  *)
(* and after the quiet every retried rejection asked for.                            *)
THEOREM ScheduleIsKept == RequestsSpec => KeepsTheSchedule
<1>1. RequestsInv /\ [RequestsNext]_requestVars =>
         [\A c \in Calls : GoingOut(c) =>
            /\ until[c] <= now /\ asked <= now
            /\ \A p \in places : Apart(p, until[c])]_requestVars
  BY GoesOutInTurn
<1> QED BY <1>1, InitInv, StepInv, PTL DEF RequestsSpec, KeepsTheSchedule

================================================================================
