------------------------------ MODULE Delivery ------------------------------
(***************************************************************************)
(* Delivery of prepared texts to Telegram by DeliveryService.deliver       *)
(* (src/tawg_bot/delivery.py), made durable by scripts/commit_operation.sh *)
(* from the disposable checkouts of RepositorySession                      *)
(* (src/tawg_bot/repository_session.py).                                   *)
(*                                                                         *)
(* The delivery state is a JSON file in a git repository.  Each session    *)
(* works on a clone of its own: it changes the file on disk, commits and   *)
(* pushes.  Two sessions overlap when a second worker, a scheduled job or  *)
(* an operator's command runs beside the first; git refuses the push of a  *)
(* clone that has fallen behind, and that refusal is the only thing that   *)
(* keeps two of them from sending the same job.  Requests to Telegram and  *)
(* pushes can be lost, or done and reported as failed, and a session can   *)
(* die between any two steps.                                              *)
(***************************************************************************)
EXTENDS Naturals, Sequences

CONSTANTS Sessions,     \* runs of RepositorySession that may overlap
          Jobs,         \* delivery job ids
          NoJob,
          Texts,        \* texts a job may be asked to deliver
          NoText,
          NumParts,     \* messages (at most _MAX_MESSAGES) plus attachments
          PersistMode,  \* "full" or "receipt-only" (persist_mode.py)
          MaxPosts      \* bound: parts of one job that can reach the chat

ASSUME DeliveryAssumption ==
    /\ NoJob \notin Jobs
    /\ NoText \notin Texts
    /\ Texts # {}
    /\ NumParts \in [Texts -> Nat \ {0}]
    /\ PersistMode \in {"full", "receipt-only"}
    /\ MaxPosts \in Nat

VARIABLES
    remote,  \* the delivery state at the head of the remote branch
    disk,    \* per session: the delivery state in its working tree
    head,    \* per session: the delivery state in its last local commit
    fresh,   \* per session: its local head descends from the remote head
    pc,      \* per session: where it is
    job,     \* per session: the job of the deliver call that is running
    text,    \* per session: the text of that call
    sent,    \* per session: parts of that call Telegram has confirmed
    posted   \* per job: the parts that have reached the chat, in order

vars == <<remote, disk, head, fresh, pc, job, text, sent, posted>>

Statuses == {"none", "prepared", "sending", "delivered", "failed", "ambiguous"}

\* One entry of delivery-state.json; text stands for its content_sha256.
Attempt(st, t) == [status |-> st, text |-> t]

NoAttempt == Attempt("none", NoText)

NoAttempts == [j \in Jobs |-> NoAttempt]

Locations == {"out", "ready", "raised", "prepared", "sending", "post", "result",
              "saving"}

\* The locations in which a call of commit_operation.sh is due.
Checkpoints == {"prepared", "sending", "result", "saving"}

Init ==
    /\ remote = NoAttempts
    /\ disk = [s \in Sessions |-> NoAttempts]
    /\ head = [s \in Sessions |-> NoAttempts]
    /\ fresh = [s \in Sessions |-> FALSE]
    /\ pc = [s \in Sessions |-> "out"]
    /\ job = [s \in Sessions |-> NoJob]
    /\ text = [s \in Sessions |-> NoText]
    /\ sent = [s \in Sessions |-> 0]
    /\ posted = [j \in Jobs |-> <<>>]

-----------------------------------------------------------------------------
(* Helpers                                                                 *)

\* Session s goes to location where and forgets the call it was in.
Return(s, where) ==
    /\ pc' = [pc EXCEPT ![s] = where]
    /\ job' = [job EXCEPT ![s] = NoJob]
    /\ text' = [text EXCEPT ![s] = NoText]
    /\ sent' = [sent EXCEPT ![s] = 0]

\* _publish_attempts: session s writes a for the job j into its working tree.
\* Mutant: the file is written anew with the entry of this job alone.
MutantWrite(s, j, a) == disk' = [disk EXCEPT ![s] = [NoAttempts EXCEPT ![j] = a]]

Write(s, j, a) == disk' = [disk EXCEPT ![s] = [disk[s] EXCEPT ![j] = a]]

\* The remote branch moves to what session s has on disk; every other clone
\* falls behind.
Push(s) ==
    /\ fresh[s]
    /\ remote' = disk[s]
    /\ head' = [head EXCEPT ![s] = disk[s]]
    /\ fresh' = [r \in Sessions |-> r = s]

\* Only a text with the recorded hash may follow an intent.
SameContent(a, t) == a.text \in {NoText, t}

-----------------------------------------------------------------------------
(* The disposable checkout                                                 *)

\* git clone of the remote branch, and the start of the operation.
Clone(s) ==
    /\ pc[s] = "out"
    /\ disk' = [disk EXCEPT ![s] = remote]
    /\ head' = [head EXCEPT ![s] = remote]
    /\ fresh' = [fresh EXCEPT ![s] = TRUE]
    /\ pc' = [pc EXCEPT ![s] = "ready"]
    /\ UNCHANGED <<remote, job, text, sent, posted>>

\* The checkout is dropped: the operation has ended, or the process died.
Drop(s) ==
    /\ disk' = [disk EXCEPT ![s] = NoAttempts]
    /\ head' = [head EXCEPT ![s] = NoAttempts]
    /\ fresh' = [fresh EXCEPT ![s] = FALSE]
    /\ Return(s, "out")

Leave(s) ==
    /\ pc[s] # "out"
    /\ Drop(s)
    /\ UNCHANGED <<remote, posted>>

\* Somebody else pushes to the branch without touching the delivery state.
OtherPush ==
    /\ fresh' = [s \in Sessions |-> FALSE]
    /\ UNCHANGED <<remote, disk, head, pc, job, text, sent, posted>>

-----------------------------------------------------------------------------
(* deliver, up to its first checkpoint.  An entry that is delivered or     *)
(* ambiguous, or that was recorded for another text, ends the call without *)
(* a change of state: no action.                                           *)

\* An intent that was recorded as sending is never sent again.
Recover(s, j, t) ==
    /\ pc[s] = "ready"
    /\ disk[s][j].status = "sending"
    /\ SameContent(disk[s][j], t)
    /\ Write(s, j, [disk[s][j] EXCEPT !.status = "ambiguous"])
    /\ pc' = [pc EXCEPT ![s] = "result"]
    /\ job' = [job EXCEPT ![s] = j]
    /\ text' = [text EXCEPT ![s] = t]
    /\ UNCHANGED <<remote, head, fresh, sent, posted>>

\* Mutant: an intent recorded as sending is sent again.
MutantPrepareSending(s, j, t) ==
    /\ pc[s] = "ready"
    /\ disk[s][j].status \in {"none", "prepared", "failed", "sending"}
    /\ SameContent(disk[s][j], t)
    /\ Write(s, j, Attempt("prepared", t))
    /\ pc' = [pc EXCEPT ![s] = "prepared"]
    /\ job' = [job EXCEPT ![s] = j]
    /\ text' = [text EXCEPT ![s] = t]
    /\ UNCHANGED <<remote, head, fresh, sent, posted>>

Prepare(s, j, t) ==
    /\ pc[s] = "ready"
    /\ disk[s][j].status \in {"none", "prepared", "failed"}
    /\ SameContent(disk[s][j], t)
    /\ Write(s, j, Attempt("prepared", t))
    /\ pc' = [pc EXCEPT ![s] = "prepared"]
    /\ job' = [job EXCEPT ![s] = j]
    /\ text' = [text EXCEPT ![s] = t]
    /\ UNCHANGED <<remote, head, fresh, sent, posted>>

\* A checkpoint the caller makes for its own state, between deliveries.
Save(s) ==
    /\ pc[s] = "ready"
    /\ pc' = [pc EXCEPT ![s] = "saving"]
    /\ UNCHANGED <<remote, disk, head, fresh, job, text, sent, posted>>

-----------------------------------------------------------------------------
(* commit_operation.sh                                                     *)

\* Mutant: Telegram is called without waiting for the push of the sending entry.
MutantContinue(s) ==
    \/ /\ pc[s] \in {"prepared", "sending"}
       /\ Write(s, job[s], Attempt("sending", text[s]))
       /\ pc' = [pc EXCEPT ![s] = "post"]
       /\ UNCHANGED <<job, text, sent>>
    \/ /\ pc[s] \in {"result", "saving"}
       /\ Return(s, "ready")
       /\ UNCHANGED disk

\* What the session does next when the script exits with 0.
Continue(s) ==
    \/ /\ pc[s] = "prepared"
       /\ Write(s, job[s], Attempt("sending", text[s]))
       /\ pc' = [pc EXCEPT ![s] = "sending"]
       /\ UNCHANGED <<job, text, sent>>
    \/ /\ pc[s] = "sending"
       /\ pc' = [pc EXCEPT ![s] = "post"]
       /\ UNCHANGED <<disk, job, text, sent>>
    \/ /\ pc[s] \in {"result", "saving"}
       /\ Return(s, "ready")
       /\ UNCHANGED disk

\* Exit 0 after a push.  A push of nothing new leaves the others up to date;
\* only the receipt-only branch of the script makes one.
CheckpointPushes(s) ==
    /\ pc[s] \in Checkpoints
    /\ \/ Push(s)
       \/ /\ PersistMode = "receipt-only"
          /\ fresh[s] /\ remote = disk[s] /\ head[s] = disk[s]
          /\ UNCHANGED <<remote, head, fresh>>
    /\ Continue(s)
    /\ UNCHANGED posted

\* Exit 0 because nothing is staged: the full branch does not push then.
CheckpointSkips(s) ==
    /\ pc[s] \in Checkpoints
    /\ PersistMode = "full"
    /\ disk[s] = head[s]
    /\ Continue(s)
    /\ UNCHANGED <<remote, head, fresh, posted>>

\* Exit 75: the push was refused and RepositoryConflict ends the session.
CheckpointConflicts(s) ==
    /\ pc[s] \in Checkpoints
    /\ ~fresh[s]
    /\ Drop(s)
    /\ UNCHANGED <<remote, posted>>

\* Any other exit status, before the commit, after it, or after a push whose
\* success was not reported.  ScriptCheckpoint raises RuntimeFailure.
CheckpointFails(s) ==
    /\ pc[s] \in Checkpoints
    /\ \/ UNCHANGED <<remote, head, fresh>>
       \/ /\ head' = [head EXCEPT ![s] = disk[s]]
          /\ UNCHANGED <<remote, fresh>>
       \/ Push(s)
    /\ Return(s, "raised")
    /\ UNCHANGED <<disk, posted>>

\* The caller catches the failure and goes on in the same checkout
\* (Scheduler._phase; with an inbox, the loop over its entries).
Resume(s) ==
    /\ pc[s] = "raised"
    /\ pc' = [pc EXCEPT ![s] = "ready"]
    /\ UNCHANGED <<remote, disk, head, fresh, job, text, sent, posted>>

-----------------------------------------------------------------------------
(* Sending the parts                                                       *)

Arrives(s) ==
    /\ Len(posted[job[s]]) < MaxPosts
    /\ posted' = [posted EXCEPT ![job[s]] =
                     Append(posted[job[s]], [text |-> text[s], part |-> sent[s] + 1])]

\* Mutant: the status is left as the name of the error.
MutantOutcome(s, st) ==
    /\ Write(s, job[s], Attempt(IF st = "failed" THEN "rejected" ELSE st, text[s]))
    /\ pc' = [pc EXCEPT ![s] = "result"]
    /\ UNCHANGED <<remote, head, fresh, job, text>>

Outcome(s, st) ==
    /\ Write(s, job[s], Attempt(st, text[s]))
    /\ pc' = [pc EXCEPT ![s] = "result"]
    /\ UNCHANGED <<remote, head, fresh, job, text>>

\* Telegram confirms a part that is not the last one.
PartConfirmed(s) ==
    /\ pc[s] = "post"
    /\ sent[s] + 1 < NumParts[text[s]]
    /\ Arrives(s)
    /\ sent' = [sent EXCEPT ![s] = sent[s] + 1]
    /\ UNCHANGED <<remote, disk, head, fresh, pc, job, text>>

LastPartConfirmed(s) ==
    /\ pc[s] = "post"
    /\ sent[s] + 1 = NumParts[text[s]]
    /\ Arrives(s)
    /\ sent' = [sent EXCEPT ![s] = sent[s] + 1]
    /\ Outcome(s, "delivered")

\* The answer is lost or invalid, or names another chat: the part may have
\* been accepted.
PartUnknown(s) ==
    /\ pc[s] = "post"
    /\ Arrives(s) \/ UNCHANGED posted
    /\ Outcome(s, "ambiguous")
    /\ UNCHANGED sent

\* Mutant: a refusal after some parts arrived still allows a retry.
MutantPartRejected(s) ==
    /\ pc[s] = "post"
    /\ Outcome(s, "failed")
    /\ UNCHANGED <<sent, posted>>

\* Telegram explicitly refuses the part.
PartRejected(s) ==
    /\ pc[s] = "post"
    /\ Outcome(s, IF sent[s] = 0 THEN "failed" ELSE "ambiguous")
    /\ UNCHANGED <<sent, posted>>

-----------------------------------------------------------------------------
Next ==
    \/ OtherPush
    \/ \E s \in Sessions :
          \/ Clone(s) \/ Leave(s) \/ Save(s) \/ Resume(s)
          \/ \E j \in Jobs, t \in Texts : Recover(s, j, t) \/ Prepare(s, j, t)
          \/ CheckpointPushes(s) \/ CheckpointSkips(s)
          \/ CheckpointConflicts(s) \/ CheckpointFails(s)
          \/ PartConfirmed(s) \/ LastPartConfirmed(s)
          \/ PartUnknown(s) \/ PartRejected(s)

Spec == Init /\ [][Next]_vars

-----------------------------------------------------------------------------
(* Properties                                                              *)

\* The promise of an entry: what it says of the sending of its job.
Promised(a) == CASE a.status = "sending" -> "begun"
                 [] a.status = "ambiguous" -> "review"
                 [] a.status = "delivered" -> "done"
                 [] OTHER -> "open"

P(j) == INSTANCE DeliveryPromise WITH record <- Promised(remote[j]), chat <- posted[j]

Attempts == [Jobs -> [status : Statuses, text : Texts \cup {NoText}]]

\* The type of the state of the sessions, the branch and the chat.
TypeOK ==
    /\ remote \in Attempts
    /\ disk \in [Sessions -> Attempts]
    /\ head \in [Sessions -> Attempts]
    /\ fresh \in [Sessions -> BOOLEAN]
    /\ pc \in [Sessions -> Locations]
    /\ job \in [Sessions -> Jobs \cup {NoJob}]
    /\ text \in [Sessions -> Texts \cup {NoText}]
    /\ sent \in [Sessions -> Nat]
    /\ posted \in [Jobs -> Seq([text : Texts, part : Nat \ {0}])]

\* At most once: whatever is lost, retried or run twice, the chat holds a
\* prefix of the parts of one text, in order, each of them once
\* (DeliveryAmbiguous: "automatic retry could duplicate an accepted Telegram
\* message").
PostedOnce ==
    \A j \in Jobs : \E t \in Texts :
        /\ Len(posted[j]) <= NumParts[t]
        /\ posted[j] = [i \in 1..Len(posted[j]) |-> [text |-> t, part |-> i]]

\* The entries are true.  From the first part on the pushed entry names that
\* text and says sending, ambiguous or delivered, so a fresh clone after any
\* crash will not send it again (deliver pushes the sending entry before it
\* calls Telegram); and an entry that says delivered, in the branch or in any
\* working tree, has all its parts in the chat.
RecordsTrue ==
    \A j \in Jobs :
        /\ \A i \in 1..Len(posted[j]) :
              /\ remote[j].status \in {"sending", "ambiguous", "delivered"}
              /\ remote[j].text = posted[j][i].text
        /\ \A a \in {remote[j]} \cup {disk[s][j] : s \in Sessions} :
              a.status = "delivered" => Len(posted[j]) = NumParts[a.text]

\* Each job implements DeliveryPromise: \A j \in Jobs : P(j)!PromiseSpec, written
\* with one box because one push may move several jobs at once.
KeepsPromise ==
    /\ \A j \in Jobs : P(j)!PromiseInit
    /\ [][\A j \in Jobs : [P(j)!PromiseNext]_(P(j)!promiseVars)]_vars

\* "Make the current repository state durable before/after the external call"
\* (DeliveryCheckpoint.publish): when a checkpoint returns normally in a clone
\* that has not fallen behind, the branch holds what the session had on disk.
CheckpointDurable ==
    [][\A s \in Sessions :
          (/\ pc[s] \in Checkpoints /\ fresh[s]
           /\ pc'[s] \in {"sending", "post", "ready"} /\ pc'[s] # pc[s])
             => remote' = disk[s]]_vars
=============================================================================
