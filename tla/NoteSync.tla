-------------------------------- MODULE NoteSync --------------------------------
(***************************************************************************)
(* One note that is already linked to a Notion page, and the two runs that *)
(* keep both in step: pull (PagePuller.pullUpdate) and push                *)
(* (PagePusher.pushUpdate), one run at a time (OperationGate).  Every      *)
(* request to Notion and every write of the file is a step of its own; in  *)
(* between, the user edits the file, a person edits the page, the clock    *)
(* advances and the process dies.  A read of the file and the decision or  *)
(* the record that follows it at once are one step.                        *)
(*                                                                         *)
(* A text is the set of the edits it contains.  Body edits live in the     *)
(* page body, the others in the title and decorations ("outside the body").*)
(***************************************************************************)
EXTENDS RemoteObservation

CONSTANTS
    Edits,          \* identities of the edits people make
    Body,           \* those that touch the body of the note
    Strategies,     \* values of config.sync.conflictStrategy
    Skew,           \* minutes this device's clock is ahead of Notion's
    MaxMinute,      \* bound: Notion's clock stops here
    Failures,       \* requests fail and the process dies
    EditDuringRun,  \* the user edits the file while a run is going on
    OwnWriteExcused,\* count what is taken for an interrupted write as announced
    RereadExcused   \* count what a push reads back with its own write as announced

ASSUME NoteAssumption ==
    /\ Body \subseteq Edits
    /\ Strategies \subseteq {"manual", "local-first", "remote-first", "merge"}
    /\ MaxMinute \in Nat
    /\ Failures \in BOOLEAN
    /\ EditDuringRun \in BOOLEAN
    /\ OwnWriteExcused \in BOOLEAN
    /\ RereadExcused \in BOOLEAN
    /\ \A t \in SUBSET Edits : t \notin {NoPrint, NoText}

(* The margin the code keeps covers the skew of the two clocks. *)
ASSUME SkewAssumption == Skew \in 0..ClockSkewMargin

VARIABLES
    strategy, \* the strategy this vault is configured with
    minute,   \* Notion's clock
    remote,   \* the page: body, meta (outside the body), time, by
    local,    \* the text of the file
    fresh,    \* mtime and size of the file are those the record holds
    rec,      \* the sync_state row: base (content_hash and base_snapshot),
              \* edited, by, seen, print, status
    journal,  \* the text of an update in pending_operations that never finished
    phase,    \* where the run is
    run,      \* the run: kind, seen and bot (its observation context), retried
    page,     \* what the run has read of the page; its body is what a fingerprint is of
    text,     \* what the run has read of the file
    settles,  \* this push may record that it saw the page
    made,     \* the edits made so far
    spared    \* edits whose loss a strategy announces or a race explains

vars == <<strategy, minute, remote, local, fresh, rec, journal, phase, run, page, text,
          settles, made, spared>>
runVars == <<run, page, text, settles>>
people == <<strategy, minute, made>>

Meta == Edits \ Body
Whole(p) == p.body \cup p.meta

Record == [base: {NoText} \cup SUBSET Edits, edited: Nat, by: Editor \cup {Unknown},
           seen: Nat, print: {NoPrint} \cup SUBSET Body,
           status: {"synced", "pending", "conflict"}]
Page == [body: SUBSET Body, meta: SUBSET Meta, time: Nat, by: Editor]
Run == [kind: {"pull", "push"}, seen: Nat, bot: BOOLEAN, retried: BOOLEAN]

PullPhases == {"detect", "getPage", "getBody", "decide", "write", "stored",
               "writeMerged", "storedMerged"}
PushPhases == {"read", "live", "drift", "send", "fill", "reread", "title", "store",
               "salvage", "salvageBody"}

(***************************************************************************)
(* The note was linked in minute 1: pulled from a person's page, or created*)
(* by a push that finished (no fingerprint is kept then), or by a push     *)
(* that died after it had written down the page id and nothing else.       *)
(***************************************************************************)
Linked == {<<Human, {}, {}, "synced">>, <<Bot, {}, NoPrint, "synced">>,
           <<Bot, NoText, NoPrint, "pending">>}

Init ==
    /\ strategy \in Strategies
    /\ minute = 1
    /\ local = {} /\ made = {} /\ spared = {}
    /\ \E how \in Linked :
        /\ remote = [body |-> {}, meta |-> {}, time |-> 1, by |-> how[1]]
        /\ rec = [base |-> how[2], edited |-> 1, by |-> how[1], seen |-> 1 + Skew,
                  print |-> how[3], status |-> how[4]]
        /\ fresh = (how[2] # NoText)
    /\ journal = NoText
    /\ phase = "idle"
    /\ run = [kind |-> "pull", seen |-> 0, bot |-> FALSE, retried |-> FALSE]
    /\ page = remote
    /\ text = {}
    /\ settles = FALSE
--------------------------------------------------------------------------------
(* The people, and the clock. *)

Tick ==
    /\ minute < MaxMinute
    /\ minute' = minute + 1
    /\ UNCHANGED <<strategy, remote, local, fresh, rec, journal, phase, runVars, made, spared>>

HumanEdit(e) ==
    /\ e \notin made
    /\ made' = made \cup {e}
    /\ remote' = [body |-> remote.body \cup ({e} \cap Body),
                  meta |-> remote.meta \cup ({e} \cap Meta),
                  time |-> minute, by |-> Human]
    /\ UNCHANGED <<strategy, minute, local, fresh, rec, journal, phase, runVars, spared>>

LocalEdit(e) ==
    /\ e \notin made
    /\ phase = "idle" \/ EditDuringRun
    /\ made' = made \cup {e}
    /\ local' = local \cup {e}
    /\ fresh' = FALSE
    /\ UNCHANGED <<strategy, minute, remote, rec, journal, phase, runVars, spared>>
--------------------------------------------------------------------------------
(* A run starts: RunObservation.begin, then the bot id if Notion answers. *)

Begin(kind, first) ==
    /\ phase = "idle"
    /\ phase' = first
    /\ \E bot \in IF Failures THEN BOOLEAN ELSE {TRUE} :
          run' = [kind |-> kind, seen |-> minute + Skew, bot |-> bot, retried |-> FALSE]
    /\ UNCHANGED <<people, remote, local, fresh, rec, journal, page, text, settles, spared>>

BeginPull == Begin("pull", "detect")

(* The scan skips a file whose stat is the recorded one, and push skips a conflict. *)
LocallyModified == ~fresh /\ local # rec.base

BeginPush == LocallyModified /\ rec.status # "conflict" /\ Begin("push", "read")

Goto(p) == phase' = p /\ UNCHANGED runVars
Quiet == UNCHANGED <<people, remote, local, fresh, rec, journal, spared>>

(* An item that fails is tried once more by the same run. *)
ItemFails ==
    IF run.retried
    THEN Goto("idle")
    ELSE /\ phase' = IF run.kind = "pull" THEN "getPage" ELSE "read"
         /\ run' = [run EXCEPT !.retried = TRUE]
         /\ UNCHANGED <<page, text, settles>>

RequestFails ==
    /\ Failures
    /\ phase \in {"getPage", "getBody", "drift", "live", "send", "title", "reread", "salvage",
                 "salvageBody"}
    /\ ItemFails
    /\ Quiet

Crash ==
    /\ Failures
    /\ phase # "idle"
    /\ Goto("idle")
    /\ Quiet
--------------------------------------------------------------------------------
(* Pull. *)

Detect ==
    /\ phase = "detect"
    /\ Goto(IF Unchanged(rec, remote, run.bot) THEN "idle" ELSE "getPage")
    /\ Quiet

PullGetPage ==
    /\ phase = "getPage"
    /\ phase' = "getBody"
    /\ page' = remote
    /\ UNCHANGED <<run, text, settles>>
    /\ Quiet

PullGetBody ==
    /\ phase = "getBody"
    /\ phase' = "decide"
    /\ page' = [page EXCEPT !.body = remote.body]
    /\ UNCHANGED <<run, text, settles>>
    /\ Quiet

(* The page is what this tool wrote when it was cut off (UpdateJournal.wroteRemote). *)
InterruptedOwnWrite(p, t) == run.bot /\ p.by = Bot /\ journal = t

(* What people did to a page whose last editor is this tool because a push of it was   *)
(* cut off.  Not code: it only tells BodyEditsKept whether losing that counts.         *)
Excused(p, t) ==
    LET own == \/ InterruptedOwnWrite(p, t)
               \/ journal # NoText /\ OnlyBotWrote(rec, p, run.bot)
    IN  IF OwnWriteExcused /\ own THEN Whole(p) \ t ELSE {}

(* Outside the body the page is the text of the last sync. *)
OutsideBodyUnchanged(p) == rec.base # NoText /\ p.meta = rec.base \cap Meta

UnchangedSinceSync(p) ==
    \/ p.body = rec.print /\ OutsideBodyUnchanged(p)
    \/ InterruptedOwnWrite(p, local)

Same == local = Whole(page)
LocalModified == local # rec.base

(* Mutant of RemoteMoved: the strategy decides before anyone asks whether the page moved. *)
RemoteMovedAssumed(p) == TRUE

RemoteMoved(p) == ~UnchangedSinceSync(p) /\ Whole(p) # rec.base

NothingToTake == LocalModified /\ ~Same /\ ~RemoteMoved(page)
BothChanged == LocalModified /\ ~Same /\ RemoteMoved(page)

RecordText(t) == [Observe(rec, page, run.seen, page.body) EXCEPT !.base = t, !.status = "synced"]

(* The file already says what the page says: only the record moves. *)
DecideSame ==
    /\ phase = "decide" /\ Same
    /\ rec' = RecordText(local)
    /\ fresh' = TRUE
    /\ Goto("idle")
    /\ UNCHANGED <<people, remote, local, journal, spared>>

DecideSkip ==
    /\ phase = "decide"
    /\ NothingToTake
    /\ rec' = Observe(rec, page, run.seen, page.body)
    /\ spared' = spared \cup Excused(page, local)
    /\ Goto("idle")
    /\ UNCHANGED <<people, remote, local, fresh, journal>>

(* local-first keeps the file and does not record that it saw the page. *)
DecideKeepLocal ==
    /\ phase = "decide" /\ BothChanged
    /\ strategy = "local-first"
    /\ Goto("idle")
    /\ Quiet

(* merge falls back to a conflict when both sides changed the same lines. *)
DecideConflict ==
    /\ phase = "decide" /\ BothChanged
    /\ strategy \in {"manual", "merge"}
    /\ rec' = [rec EXCEPT !.status = "conflict"]
    /\ Goto("idle")
    /\ UNCHANGED <<people, remote, local, fresh, journal, spared>>

Decide(next) ==
    /\ phase' = next
    /\ text' = local
    /\ UNCHANGED <<run, page, settles>>
    /\ Quiet

DecideWrite ==
    /\ phase = "decide" /\ ~Same
    /\ ~LocalModified \/ (BothChanged /\ strategy = "remote-first")
    /\ Decide("write")

DecideMerge ==
    /\ phase = "decide" /\ BothChanged
    /\ strategy = "merge" /\ rec.base # NoText
    /\ Decide("writeMerged")

(* An edit that reaches the file between the read and the write is gone: a race. *)
WriteFile(t, next) ==
    /\ local' = t
    /\ fresh' = FALSE
    /\ spared' = spared \cup {e \in local \ t : e \notin text \/ strategy = "remote-first"}
    /\ Goto(next)
    /\ UNCHANGED <<people, remote, rec, journal>>

PullWrite == phase = "write" /\ WriteFile(Whole(page), "stored")
PullWriteMerged == phase = "writeMerged" /\ WriteFile(text \cup Whole(page), "storedMerged")

(* The stat is taken after the write, whatever the file holds by then. *)
PullStore ==
    /\ phase = "stored"
    /\ rec' = RecordText(Whole(page))
    /\ fresh' = TRUE
    /\ Goto("idle")
    /\ UNCHANGED <<people, remote, local, journal, spared>>

(* Mutant of PullStoreMerged: the stat of the merged file goes into the record. *)
PullStoreMergedWithStat ==
    /\ phase = "storedMerged"
    /\ rec' = RecordText(Whole(page))
    /\ fresh' = TRUE
    /\ Goto("idle")
    /\ UNCHANGED <<people, remote, local, journal, spared>>

(* A merged note keeps no stat, so that the next push reads it. *)
PullStoreMerged ==
    /\ phase = "storedMerged"
    /\ rec' = RecordText(Whole(page))
    /\ Goto("idle")
    /\ UNCHANGED <<people, remote, local, fresh, journal, spared>>
--------------------------------------------------------------------------------
(* Push. *)

(* Mutant of SentBody: the frontmatter stays in what is sent. *)
SentWhole(t) == t

(* The body that convertToNotion makes of a text, which is also what its fingerprint is of. *)
SentBody(t) == t \cap Body

PushRead ==
    /\ phase = "read"
    /\ phase' = "live"
    /\ text' = local
    /\ UNCHANGED <<run, page, settles>>
    /\ Quiet

OverwritesRemote == strategy = "local-first" \/ (rec.base = NoText /\ rec.print = NoPrint)

(* No drift: the journal is written and the body goes out next. *)
Send(clean) ==
    /\ phase' = "send"
    /\ settles' = clean
    /\ journal' = text
    /\ spared' = spared \cup Excused(page', text)
    /\ UNCHANGED <<people, remote, local, fresh, rec, run, text>>

PushLive ==
    /\ phase = "live"
    /\ \/ /\ OverwritesRemote \/ InterruptedOwnWrite(remote, text)
             \/ Unchanged(rec, remote, run.bot)
          /\ page' = remote
          /\ Send(TRUE)
       \/ /\ ~OverwritesRemote /\ ~InterruptedOwnWrite(remote, text)
          /\ ~Unchanged(rec, remote, run.bot)
          /\ rec.print # NoPrint
          /\ phase' = "drift"
          /\ page' = remote
          /\ UNCHANGED <<run, text, settles>>
          /\ Quiet
       \/ /\ ~OverwritesRemote /\ ~InterruptedOwnWrite(remote, text)
          /\ ~Unchanged(rec, remote, run.bot)
          /\ rec.print = NoPrint
          /\ ItemFails
          /\ Quiet

(* Fingerprint of the body as it is now; the title as it was in PushLive. *)
PushDrift ==
    /\ phase = "drift"
    /\ \/ /\ remote.body = rec.print
          /\ page' = [page EXCEPT !.body = remote.body]
          /\ Send(OutsideBodyUnchanged(page))
       \/ /\ remote.body # rec.print
          /\ ItemFails
          /\ Quiet

(* The body a run reads next to what it has already read of the page. *)
WithBody(body) == [page EXCEPT !.body = body]

Answered(p, next) ==
    /\ page' = p
    /\ phase' = next
    /\ UNCHANGED <<run, text, settles>>

(***************************************************************************)
(* The whole body is replaced, but for what is sent after it: code, synced *)
(* references and media, of which it holds place holders (`late`).  The    *)
(* fingerprint is of the answer, and the body is read back if the answer   *)
(* is cut short.  The answer may be lost although Notion did it;           *)
(* RequestFails is the request that did not arrive.  What people wrote     *)
(* into the body after the check is gone, a race without a remedy in the   *)
(* API; under OverwritesRemote the loss is announced.                      *)
(***************************************************************************)
PushBody ==
    /\ phase = "send"
    /\ \E late \in SUBSET SentBody(text) :
          /\ remote' = [remote EXCEPT !.body = SentBody(text) \ late, !.time = minute, !.by = Bot]
          /\ \/ \E next \in {"fill"} \cup (IF late = {} THEN {"reread", "title"} ELSE {}) :
                   Answered(WithBody(SentBody(text) \ late), next)
             \/ Failures /\ ItemFails
    /\ spared' = spared \cup {e \in remote.body \ text : e \notin page.body \/ OverwritesRemote}
    /\ UNCHANGED <<people, local, fresh, rec, journal>>

(* Place holders are replaced where they stand; what people wrote beside them stays. *)
Filled == [remote EXCEPT !.body = @ \cup SentBody(text), !.time = minute, !.by = Bot]

PushFill ==
    /\ phase = "fill"
    /\ remote' = Filled
    /\ Goto("reread")
    /\ UNCHANGED <<people, local, fresh, rec, journal, spared>>

(* A push that cannot fill in code or references writes down the page as it is before it *)
(* gives up; one that cannot fill in media gives up.  What it did fill in is not `late`. *)
FillFails ==
    /\ Failures
    /\ phase = "fill"
    /\ remote' \in {remote, Filled}
    /\ Goto("salvage") \/ ItemFails
    /\ UNCHANGED <<people, local, fresh, rec, journal, spared>>

(* What people wrote between the writing of the body and this reading of it, and nobody *)
(* has received.  Not code: it only tells BodyEditsKept whether losing that counts.     *)
ReadBack == IF RereadExcused THEN remote.body \ text ELSE {}

(* The body has been touched since it was sent: the fingerprint is of what is read now. *)
PushReread ==
    /\ phase = "reread"
    /\ Answered(WithBody(remote.body), "title")
    /\ spared' = spared \cup ReadBack
    /\ UNCHANGED <<people, remote, local, fresh, rec, journal>>

SalvagePage ==
    /\ phase = "salvage"
    /\ Answered(remote, "salvageBody")
    /\ Quiet

SalvageBody ==
    /\ phase = "salvageBody"
    /\ rec' = Observe(rec, page, run.seen, remote.body)
    /\ spared' = spared \cup ReadBack
    /\ ItemFails
    /\ UNCHANGED <<people, remote, local, fresh, journal>>

SendsTitle == text \cap Meta # (IF rec.base = NoText THEN {} ELSE rec.base \cap Meta)

(* The page the record will be told of: the answer to the title, which may be lost too,   *)
(* or a fresh getPage.                                                                    *)
PushTitle ==
    /\ phase = "title"
    /\ \/ /\ SendsTitle
          /\ remote' = [remote EXCEPT !.meta = text \cap Meta, !.time = minute, !.by = Bot]
          /\ spared' = spared \cup {e \in remote.meta \ text : e \notin page.meta \/ OverwritesRemote}
       \/ /\ ~SendsTitle
          /\ UNCHANGED <<remote, spared>>
    /\ \/ Answered([remote' EXCEPT !.body = page.body], "store")
       \/ Failures /\ SendsTitle /\ ItemFails
    /\ UNCHANGED <<people, local, fresh, rec, journal>>

PushStore ==
    /\ phase = "store"
    /\ journal' = NoText
    /\ rec' = [(IF settles THEN Observe(rec, page, run.seen, page.body)
                           ELSE [rec EXCEPT !.print = page.body])
               EXCEPT !.base = text, !.status = "synced"]
    /\ fresh' = TRUE
    /\ Goto("idle")
    /\ UNCHANGED <<people, remote, local, spared>>
--------------------------------------------------------------------------------
Pull == \/ Detect \/ PullGetPage \/ PullGetBody
        \/ DecideSame \/ DecideSkip \/ DecideKeepLocal \/ DecideConflict
        \/ DecideWrite \/ DecideMerge
        \/ PullWrite \/ PullWriteMerged \/ PullStore \/ PullStoreMerged

Push == \/ PushRead \/ PushLive \/ PushDrift
        \/ PushBody \/ PushFill \/ FillFails \/ PushReread \/ SalvagePage \/ SalvageBody
        \/ PushTitle \/ PushStore

Next ==
    \/ Tick
    \/ \E e \in Edits : HumanEdit(e) \/ LocalEdit(e)
    \/ BeginPull \/ BeginPush
    \/ Pull \/ Push
    \/ RequestFails \/ Crash

Spec == Init /\ [][Next]_vars
--------------------------------------------------------------------------------
(***************************************************************************)
(* Every watch or interval run is a sync, a pull and then a push, and each *)
(* step of it ends: requests have deadlines.  A push starts only between   *)
(* two pulls, so it takes strong fairness to say that it starts.           *)
(***************************************************************************)
FairSpec == Spec /\ WF_vars(Pull) /\ WF_vars(Push) /\ SF_vars(BeginPull) /\ SF_vars(BeginPush)
--------------------------------------------------------------------------------
TypeOK ==
    /\ strategy \in Strategies
    /\ minute \in Nat
    /\ remote \in Page /\ page \in Page
    /\ local \in SUBSET Edits /\ text \in SUBSET Edits
    /\ fresh \in BOOLEAN /\ settles \in BOOLEAN
    /\ rec \in Record
    /\ journal \in {NoText} \cup SUBSET Edits
    /\ phase \in {"idle"} \cup PullPhases \cup PushPhases
    /\ run \in Run
    /\ made \in SUBSET Edits /\ spared \in SUBSET Edits

(* A stamp that is the recorded one, seen after its minute had surely ended, is   *)
(* proof that nobody has touched the body since: isSettled never vouches for a    *)
(* body that compareRemote would then let a push overwrite unread.                *)
SettledIsExact ==
    IsSettled(rec.edited, rec.seen) /\ ~Changed(rec, remote) => remote.body = rec.print

(* No edit of a body disappears from both sides unless a strategy said so or two  *)
(* writes crossed in flight: pushUpdate and pullUpdate look before they overwrite.*)
BodyEditsKept == made \cap Body \subseteq local \cup remote.body \cup spared

(* The same for every edit, those of the title and the decorations included.      *)
EditsKept == made \subseteq local \cup Whole(remote) \cup spared

(* A conflict is put before the user only when the page holds an edit the file    *)
(* does not have: what this tool wrote itself is never one (I8, false conflict 0). *)
NoFalseConflict == [][rec'.status = "conflict" => ~(Whole(page) \subseteq local)]_rec

(* Between runs, an edited file that is not in conflict is one the next scan      *)
(* reads: the stat a run leaves in the record is that of the text it recorded.    *)
ScanSeesEdits ==
    phase = "idle" /\ rec.status # "conflict" /\ local # rec.base => ~fresh

(* Where nothing fails and nobody edits a file under a run: no strategy loses a body   *)
(* edit unannounced, and the next scan sees every edit of a file.                      *)
EditsKeptAndSeen == BodyEditsKept /\ ScanSeesEdits

(* Once people stop editing, the two sides become equal or the note is put before *)
(* the user as a conflict; no edit waits for ever unseen.                         *)
Converges == <>[](rec.status = "conflict" \/ local = Whole(remote))
================================================================================
