--------------------------- MODULE DeliveryProofs ---------------------------
(***************************************************************************)
(* Whatever is lost, retried or run twice: no text is sent twice, the      *)
(* records are true and each job keeps its promise, for every set of       *)
(* sessions, jobs and texts and every number of parts.                     *)
(*                                                                         *)
(* The argument.  The pushed entry of a job tells what is in the chat, and *)
(* a session learns it by cloning.  A clone that has not fallen behind     *)
(* (fresh) knows everything the branch says of a job, and if it could      *)
(* still begin to send the job then nobody else has (CloneKnows).  To call *)
(* Telegram a session has to push the entry "sending" from a fresh clone,  *)
(* which makes every other clone stale: that push is where the exclusion   *)
(* of two senders (OneSender) comes from, in PushKeeps.                    *)
(***************************************************************************)
EXTENDS Delivery, SequenceTheorems, TLAPS

\* The first n parts of text t, in order.
Parts(t, n) == [i \in 1..n |-> [text |-> t, part |-> i]]

\* Session s is calling Telegram for job j.
Sends(s, j) == pc[s] = "post" /\ job[s] = j

\* Session s may still begin to send job j without leaving its clone.
Unsent(s, j) ==
    \/ disk[s][j].status \in {"none", "prepared", "failed"}
    \/ pc[s] = "sending" /\ job[s] = j

\* What a session knows at its location.
AtLocation(s) ==
    /\ pc[s] \in {"prepared", "sending", "post", "result"} => job[s] \in Jobs /\ text[s] \in Texts
    /\ pc[s] = "prepared" => disk[s][job[s]] = Attempt("prepared", text[s])
    /\ pc[s] = "sending" => /\ disk[s][job[s]] = Attempt("sending", text[s])
                            /\ head[s][job[s]] = Attempt("prepared", text[s])
    /\ pc[s] = "post" => disk[s][job[s]] = Attempt("sending", text[s])
    /\ pc[s] \notin {"post", "result"} => sent[s] = 0
    /\ pc[s] = "out" => ~fresh[s]

\* Once a part of job j is in the chat, the branch says that sending has begun
\* and names the text the parts belong to.
ChatRecorded(j) ==
    posted[j] # <<>> =>
        /\ remote[j].status \in {"sending", "ambiguous", "delivered"}
        /\ remote[j].text \in Texts
        /\ Len(posted[j]) <= NumParts[remote[j].text]
        /\ posted[j] = Parts(remote[j].text, Len(posted[j]))

\* While s calls Telegram the branch says so, and the chat holds what Telegram
\* has confirmed to s and no more.
SenderRecorded(s) ==
    pc[s] = "post" =>
        /\ remote[job[s]].status \in {"sending", "ambiguous"}
        /\ remote[job[s]].text = text[s]
        /\ posted[job[s]] = Parts(text[s], sent[s])
        /\ sent[s] < NumParts[text[s]]

\* Two sessions never call Telegram for the same job.
OneSender(s, r, j) == Sends(s, j) /\ Sends(r, j) => s = r

\* What the clone of s knows of job j unless it has fallen behind.
CloneKnows(s, j) ==
    fresh[s] =>
        /\ remote[j].text # NoText => disk[s][j].text = remote[j].text
        /\ remote[j].status \in {"ambiguous", "delivered"} => disk[s][j] = remote[j]
        /\ Unsent(s, j) => posted[j] = <<>> /\ \A r \in Sessions : ~Sends(r, j)

\* An entry a of job j that says delivered has all its parts in the chat.
Done(a, j) ==
    a.status = "delivered" => a.text \in Texts /\ posted[j] = Parts(a.text, NumParts[a.text])

\* What holds of one session.
Own(s) ==
    /\ AtLocation(s)
    /\ SenderRecorded(s)
    /\ \A j \in Jobs : CloneKnows(s, j) /\ Done(disk[s][j], j)

\* The inductive invariant.
IInv ==
    /\ TypeOK
    /\ \A s \in Sessions : Own(s)
    /\ \A j \in Jobs : ChatRecorded(j) /\ Done(remote[j], j)
    /\ \A s, r \in Sessions, j \in Jobs : OneSender(s, r, j)

-----------------------------------------------------------------------------
\* What Parts returns: n parts, to which one more can be appended.
LEMMA PartsProperties ==
    ASSUME NEW t \in Texts, NEW n \in Nat
    PROVE  /\ Parts(t, n) \in Seq([text : Texts, part : Nat \ {0}])
           /\ Len(Parts(t, n)) = n
           /\ Append(Parts(t, n), [text |-> t, part |-> n + 1]) = Parts(t, n + 1)
           /\ Parts(t, n) = <<>> <=> n = 0
BY DEF Parts

\* The parts in the chat determine how many they are, and their text.
LEMMA PartsEqual ==
    ASSUME NEW t \in Texts, NEW n \in Nat, NEW u \in Texts, NEW m \in Nat,
           Parts(t, n) = Parts(u, m)
    PROVE  n = m /\ (n > 0 => t = u)
<1>1. n = m
  <2>1. Len(Parts(t, n)) = n
    BY PartsProperties
  <2>2. Len(Parts(u, m)) = m
    BY PartsProperties
  <2> QED
    BY <2>1, <2>2
<1>2. ASSUME n > 0 PROVE t = u
  <2>1. Parts(t, n)[1].text = t /\ Parts(u, m)[1].text = u
    BY <1>1, <1>2 DEF Parts
  <2> QED
    BY <2>1
<1> QED
  BY <1>1, <1>2

\* The entries of delivery-state.json.
Entries == [status : Statuses, text : Texts \cup {NoText}]

\* The entries deliver writes have the type of an entry, with the status and the
\* text they were written with.
LEMMA EntryTypes ==
    /\ Attempts = [Jobs -> Entries]
    /\ NoAttempts \in Attempts
    /\ \A st \in {"prepared", "sending", "delivered", "failed", "ambiguous"}, t \in Texts :
          /\ Attempt(st, t) \in Entries
          /\ Attempt(st, t).status = st
          /\ Attempt(st, t).text = t
    /\ \A a \in Entries : /\ [a EXCEPT !.status = "ambiguous"] \in Entries
                          /\ [a EXCEPT !.status = "ambiguous"].status = "ambiguous"
                          /\ [a EXCEPT !.status = "ambiguous"].text = a.text
BY DEF Attempts, Entries, Statuses, NoAttempts, NoAttempt, Attempt

\* The initial state has its type.
LEMMA TypeInit == Init => TypeOK
BY EntryTypes DEF Init, TypeOK, Locations

\* Writing an entry keeps the type of the working trees, and changes one entry.
LEMMA WriteEffect ==
    ASSUME TypeOK, NEW s \in Sessions, NEW j \in Jobs, NEW a \in Entries, Write(s, j, a)
    PROVE  /\ disk' \in [Sessions -> Attempts]
           /\ disk'[s][j] = a
           /\ \A k \in Jobs \ {j} : disk'[s][k] = disk[s][k]
           /\ \A r \in Sessions \ {s} : disk'[r] = disk[r]
BY EntryTypes DEF TypeOK, Write

\* A part that arrives keeps the type of the chat.
LEMMA ArrivesType ==
    ASSUME TypeOK, NEW s \in Sessions, job[s] \in Jobs, text[s] \in Texts, Arrives(s)
    PROVE  posted' \in [Jobs -> Seq([text : Texts, part : Nat \ {0}])]
<1>1. [text |-> text[s], part |-> sent[s] + 1] \in [text : Texts, part : Nat \ {0}]
  BY DEF TypeOK
<1>2. posted[job[s]] \in Seq([text : Texts, part : Nat \ {0}])
  BY DEF TypeOK
<1>3. Append(posted[job[s]], [text |-> text[s], part |-> sent[s] + 1])
          \in Seq([text : Texts, part : Nat \ {0}])
  BY <1>1, <1>2, AppendProperties
<1> QED
  BY <1>3 DEF TypeOK, Arrives

\* Every step keeps the type.  The job and the text of the running call come from
\* AtLocation: between the calls of deliver there are none.
LEMMA TypeNext ==
    ASSUME TypeOK, [Next]_vars, \A s \in Sessions : AtLocation(s)
    PROVE  TypeOK'
<1>0. NoAttempts \in Attempts
  BY EntryTypes
<1>1. CASE OtherPush
  BY <1>1 DEF OtherPush, TypeOK
<1>2. ASSUME NEW s \in Sessions, Clone(s) PROVE TypeOK'
  BY <1>2 DEF Clone, TypeOK, Locations
<1>3. ASSUME NEW s \in Sessions, Leave(s) PROVE TypeOK'
  BY <1>0, <1>3 DEF Leave, Drop, Return, TypeOK, Locations
<1>4. ASSUME NEW s \in Sessions, Save(s) \/ Resume(s) PROVE TypeOK'
  BY <1>4 DEF Save, Resume, TypeOK, Locations
<1>5. ASSUME NEW s \in Sessions, NEW j \in Jobs, NEW t \in Texts, Recover(s, j, t)
      PROVE TypeOK'
  <2>1. disk[s][j] \in Entries
    BY EntryTypes DEF TypeOK
  <2>2. disk' \in [Sessions -> Attempts]
    BY <1>5, <2>1, WriteEffect, EntryTypes DEF Recover
  <2> QED
    BY <1>5, <2>2 DEF Recover, TypeOK, Locations
<1>6. ASSUME NEW s \in Sessions, NEW j \in Jobs, NEW t \in Texts, Prepare(s, j, t)
      PROVE TypeOK'
  <2>1. disk' \in [Sessions -> Attempts]
    BY <1>6, WriteEffect, EntryTypes DEF Prepare
  <2> QED
    BY <1>6, <2>1 DEF Prepare, TypeOK, Locations
<1>7. ASSUME NEW s \in Sessions, Push(s) PROVE
      remote' \in Attempts /\ head' \in [Sessions -> Attempts] /\ fresh' \in [Sessions -> BOOLEAN]
  BY <1>7 DEF Push, TypeOK
<1>8. ASSUME NEW s \in Sessions, Continue(s) PROVE
      /\ disk' \in [Sessions -> Attempts]
      /\ pc' \in [Sessions -> Locations]
      /\ job' \in [Sessions -> Jobs \cup {NoJob}]
      /\ text' \in [Sessions -> Texts \cup {NoText}]
      /\ sent' \in [Sessions -> Nat]
  <2>1. CASE pc[s] = "prepared"
    <3>1. /\ job[s] \in Jobs /\ text[s] \in Texts
          /\ Write(s, job[s], Attempt("sending", text[s]))
      BY <1>8, <2>1 DEF Continue, AtLocation
    <3>2. disk' \in [Sessions -> Attempts]
      BY <3>1, WriteEffect, EntryTypes
    <3> QED
      BY <1>8, <2>1, <3>2 DEF Continue, TypeOK, Locations
  <2>2. CASE pc[s] = "sending"
    BY <1>8, <2>2 DEF Continue, TypeOK, Locations
  <2>3. CASE pc[s] \in {"result", "saving"}
    <3>1. Return(s, "ready") /\ UNCHANGED disk
      BY <1>8, <2>3 DEF Continue
    <3> QED
      BY <3>1 DEF Return, TypeOK, Locations
  <2> QED
    BY <1>8, <2>1, <2>2, <2>3 DEF Continue
<1>9. ASSUME NEW s \in Sessions, CheckpointPushes(s) PROVE TypeOK'
  BY <1>9, <1>7, <1>8 DEF CheckpointPushes, TypeOK
<1>10. ASSUME NEW s \in Sessions, CheckpointSkips(s) PROVE TypeOK'
  BY <1>10, <1>8 DEF CheckpointSkips, TypeOK
<1>11. ASSUME NEW s \in Sessions, CheckpointConflicts(s) PROVE TypeOK'
  BY <1>0, <1>11 DEF CheckpointConflicts, Drop, Return, TypeOK, Locations
<1>12. ASSUME NEW s \in Sessions, CheckpointFails(s) PROVE TypeOK'
  <2>1. remote' \in Attempts /\ head' \in [Sessions -> Attempts]
        /\ fresh' \in [Sessions -> BOOLEAN]
    BY <1>12, <1>7 DEF CheckpointFails, TypeOK
  <2> QED
    BY <1>12, <2>1 DEF CheckpointFails, Return, TypeOK, Locations
<1>13. ASSUME NEW s \in Sessions,
              PartConfirmed(s) \/ LastPartConfirmed(s) \/ PartUnknown(s) \/ PartRejected(s)
       PROVE TypeOK'
  <2>1. job[s] \in Jobs /\ text[s] \in Texts
    BY <1>13 DEF AtLocation, PartConfirmed, LastPartConfirmed, PartUnknown, PartRejected
  <2>2. Arrives(s) \/ UNCHANGED posted
        => posted' \in [Jobs -> Seq([text : Texts, part : Nat \ {0}])]
    BY <2>1, ArrivesType DEF TypeOK
  <2>3. ASSUME NEW st \in {"delivered", "failed", "ambiguous"}, Outcome(s, st)
        PROVE  /\ disk' \in [Sessions -> Attempts]
               /\ pc' \in [Sessions -> Locations]
               /\ UNCHANGED <<remote, head, fresh, job, text>>
    <3>1. disk' \in [Sessions -> Attempts]
      BY <2>1, <2>3, WriteEffect, EntryTypes DEF Outcome
    <3> QED
      BY <2>3, <3>1 DEF Outcome, TypeOK, Locations
  <2>4. CASE PartConfirmed(s)
    <3>1. /\ sent' = [sent EXCEPT ![s] = sent[s] + 1]
          /\ UNCHANGED <<remote, disk, head, fresh, pc, job, text>>
      BY <2>4 DEF PartConfirmed
    <3>2. sent' \in [Sessions -> Nat]
      BY <3>1 DEF TypeOK
    <3>3. posted' \in [Jobs -> Seq([text : Texts, part : Nat \ {0}])]
      BY <2>2, <2>4 DEF PartConfirmed
    <3> QED
      BY <3>1, <3>2, <3>3 DEF TypeOK
  <2>5. CASE LastPartConfirmed(s)
    <3>0. sent' = [sent EXCEPT ![s] = sent[s] + 1]
      BY <2>5 DEF LastPartConfirmed
    <3>1. sent' \in [Sessions -> Nat]
      BY <3>0 DEF TypeOK
    <3>2. /\ disk' \in [Sessions -> Attempts]
          /\ pc' \in [Sessions -> Locations]
          /\ UNCHANGED <<remote, head, fresh, job, text>>
      BY <2>3, <2>5 DEF LastPartConfirmed
    <3>3. posted' \in [Jobs -> Seq([text : Texts, part : Nat \ {0}])]
      BY <2>2, <2>5 DEF LastPartConfirmed
    <3> QED
      BY <3>1, <3>2, <3>3 DEF TypeOK
  <2>6. CASE PartUnknown(s)
    BY <2>2, <2>3, <2>6 DEF PartUnknown, TypeOK
  <2>7. CASE PartRejected(s)
    BY <2>2, <2>3, <2>7 DEF PartRejected, TypeOK
  <2> QED
    BY <1>13, <2>4, <2>5, <2>6, <2>7
<1>14. CASE UNCHANGED vars
  BY <1>14 DEF vars, TypeOK
<1> QED
  BY <1>1, <1>2, <1>3, <1>4, <1>5, <1>6, <1>9, <1>10, <1>11, <1>12,
     <1>13, <1>14 DEF Next

-----------------------------------------------------------------------------
\* Nothing of another session than s changes, but what it knows of the branch.
Others(s) ==
    \A r \in Sessions \ {s} :
        /\ disk'[r] = disk[r] /\ head'[r] = head[r] /\ pc'[r] = pc[r]
        /\ job'[r] = job[r] /\ text'[r] = text[r] /\ sent'[r] = sent[r]

\* A step of s that concerns its clone only.
Local(s) ==
    /\ Others(s)
    /\ remote' = remote /\ posted' = posted
    /\ \A r \in Sessions \ {s} : fresh'[r] = fresh[r]
    /\ pc'[s] # "post"

\* A step of s within its clone keeps the invariant if it keeps that of s.
LEMMA LocalKeeps ==
    ASSUME IInv, TypeOK', NEW s \in Sessions, Local(s), Own(s)'
    PROVE  IInv'
<1>1. \A r \in Sessions, j \in Jobs : Sends(r, j)' => Sends(r, j)
  BY DEF Local, Others, Sends
<1>2. ASSUME NEW r \in Sessions \ {s} PROVE Own(r)'
  <2>1. Own(r)
    BY DEF IInv
  <2>2. AtLocation(r)'
    BY <2>1 DEF Own, AtLocation, Local, Others
  <2>3. SenderRecorded(r)'
    BY <2>1 DEF Own, SenderRecorded, Local, Others
  <2>4. ASSUME NEW j \in Jobs PROVE CloneKnows(r, j)' /\ Done(disk[r][j], j)'
    <3>1. Unsent(r, j)' = Unsent(r, j)
      BY DEF Unsent, Local, Others
    <3>2. CloneKnows(r, j) /\ Done(disk[r][j], j)
      BY <2>1 DEF Own
    <3> QED
      BY <1>1, <3>1, <3>2 DEF CloneKnows, Done, Local, Others
  <2> QED
    BY <2>2, <2>3, <2>4 DEF Own
<1>3. ASSUME NEW j \in Jobs PROVE ChatRecorded(j)' /\ Done(remote[j], j)'
  BY DEF IInv, ChatRecorded, Done, Local
<1>4. ASSUME NEW r \in Sessions, NEW q \in Sessions, NEW j \in Jobs PROVE OneSender(r, q, j)'
  BY <1>1 DEF IInv, OneSender
<1> QED
  BY <1>2, <1>3, <1>4 DEF IInv

\* While a session sends, no entry says that the job is done.
LEMMA SenderNotDone ==
    ASSUME IInv, NEW s \in Sessions, NEW j \in Jobs, Sends(s, j), NEW a, Done(a, j)
    PROVE  a.status # "delivered"
<1> SUFFICES ASSUME a.status = "delivered" PROVE FALSE
  OBVIOUS
<1>1. /\ posted[j] = Parts(text[s], sent[s])
      /\ sent[s] \in Nat /\ sent[s] < NumParts[text[s]] /\ text[s] \in Texts
  BY DEF IInv, Own, AtLocation, SenderRecorded, Sends, TypeOK
<1>2. posted[j] = Parts(a.text, NumParts[a.text]) /\ a.text \in Texts
  BY DEF Done
<1>3. NumParts[a.text] \in Nat \ {0}
  BY <1>2, DeliveryAssumption
<1>4. Parts(text[s], sent[s]) = Parts(a.text, NumParts[a.text])
  BY <1>1, <1>2
<1>5. sent[s] = NumParts[a.text] /\ (sent[s] > 0 => text[s] = a.text)
  BY <1>1, <1>2, <1>3, <1>4, PartsEqual
<1> QED
  BY <1>1, <1>3, <1>5

\* A push by s, which may let s call Telegram.
Pushes(s) ==
    /\ Others(s)
    /\ fresh[s] /\ remote' = disk[s] /\ posted' = posted
    /\ \A r \in Sessions \ {s} : ~fresh'[r]
    /\ pc[s] # "post"
    /\ pc'[s] = "post" => /\ pc[s] = "sending" /\ job'[s] = job[s] /\ text'[s] = text[s]

\* A push keeps the invariant if it keeps that of the session that pushes: all
\* other clones fall behind, and what s had on disk was newer than the branch.
LEMMA PushKeeps ==
    ASSUME IInv, TypeOK', NEW s \in Sessions, Pushes(s), Own(s)'
    PROVE  IInv'
<1>1. ASSUME NEW j \in Jobs, Unsent(s, j)
      PROVE  posted[j] = <<>> /\ \A r \in Sessions : ~Sends(r, j)
  BY <1>1 DEF IInv, Own, CloneKnows, Pushes
<1>2. \A r \in Sessions \ {s}, j \in Jobs : Sends(r, j)' <=> Sends(r, j)
  BY DEF Pushes, Others, Sends
<1>3. ASSUME NEW j \in Jobs, Sends(s, j)' PROVE Unsent(s, j)
  BY <1>3 DEF Pushes, Sends, Unsent
<1>4. ASSUME NEW r \in Sessions, NEW q \in Sessions, NEW j \in Jobs PROVE OneSender(r, q, j)'
  BY <1>1, <1>2, <1>3 DEF IInv, OneSender
<1>5. \A j \in Jobs : disk[s][j].status \in Statuses
  BY EntryTypes DEF IInv, TypeOK, Entries
<1>6. ASSUME NEW j \in Jobs, disk[s][j].status \notin {"none", "prepared", "failed"}
      PROVE  disk[s][j].status \in {"sending", "ambiguous", "delivered"}
  BY <1>5, <1>6 DEF Statuses
<1>7. ASSUME NEW j \in Jobs PROVE ChatRecorded(j)' /\ Done(remote[j], j)'
  <2>1. Done(remote[j], j)'
    BY DEF IInv, Own, Done, Pushes
  <2>2. ASSUME posted[j] # <<>> PROVE ChatRecorded(j)'
    <3>1. disk[s][j].status \in {"sending", "ambiguous", "delivered"}
      BY <1>1, <1>6, <2>2 DEF Unsent
    <3>2. remote[j].text \in Texts /\ disk[s][j].text = remote[j].text
      BY <2>2, DeliveryAssumption DEF IInv, Own, ChatRecorded, CloneKnows, Pushes
    <3> QED
      BY <2>2, <3>1, <3>2 DEF IInv, ChatRecorded, Pushes
  <2> QED
    BY <2>1, <2>2 DEF ChatRecorded, Pushes
<1>8. ASSUME NEW r \in Sessions \ {s} PROVE Own(r)'
  <2>1. Own(r)
    BY DEF IInv
  <2>2. AtLocation(r)'
    BY <2>1 DEF Own, AtLocation, Pushes, Others
  <2>3. SenderRecorded(r)'
    <3> SUFFICES ASSUME pc[r] = "post" PROVE SenderRecorded(r)'
      BY DEF SenderRecorded, Pushes, Others
    <3> DEFINE j == job[r]
    <3>1. j \in Jobs /\ text[r] \in Texts /\ Sends(r, j) /\ SenderRecorded(r)
      BY <2>1 DEF Own, AtLocation, Sends
    <3>2. disk[s][j].status \in {"sending", "ambiguous", "delivered"}
      BY <1>1, <1>6, <3>1 DEF Unsent
    <3>3. disk[s][j].text = text[r]
      BY <3>1, DeliveryAssumption DEF IInv, Own, SenderRecorded, CloneKnows, Pushes
    <3>4. disk[s][j].status # "delivered"
      BY <3>1, SenderNotDone DEF IInv, Own
    <3> QED
      BY <3>1, <3>2, <3>3, <3>4 DEF SenderRecorded, Pushes, Others
  <2>4. ASSUME NEW j \in Jobs PROVE CloneKnows(r, j)'
    BY DEF CloneKnows, Pushes
  <2>5. ASSUME NEW j \in Jobs PROVE Done(disk[r][j], j)'
    BY <2>1 DEF Own, Done, Pushes, Others
  <2> QED
    BY <2>2, <2>3, <2>4, <2>5 DEF Own
<1> QED
  BY <1>4, <1>7, <1>8 DEF IInv

\* A request of s to Telegram, after which it may go on to the next part.
Posts(s) ==
    /\ Others(s)
    /\ remote' = remote /\ fresh' = fresh
    /\ pc[s] = "post"
    /\ pc'[s] = "post" => job'[s] = job[s]
    /\ \A k \in Jobs \ {job[s]} : posted'[k] = posted[k]
    /\ posted'[job[s]] \in {posted[job[s]], Parts(text[s], sent[s] + 1)}

\* A request to Telegram keeps the invariant if it keeps that of the session.
LEMMA PostKeeps ==
    ASSUME IInv, TypeOK', NEW s \in Sessions, Posts(s), Own(s)'
    PROVE  IInv'
<1> DEFINE j == job[s]
           t == text[s]
           n == sent[s]
<1>1. j \in Jobs /\ t \in Texts /\ n \in Nat /\ Sends(s, j) /\ SenderRecorded(s)
  BY DEF IInv, Own, AtLocation, TypeOK, Posts, Sends
<1>2. \A r \in Sessions, k \in Jobs : Sends(r, k)' => Sends(r, k)
  BY DEF Posts, Others, Sends
<1>3. ASSUME NEW a, NEW k \in Jobs, Done(a, k) PROVE Done(a, k)'
  <2>1. CASE k = j
    <3>1. a.status # "delivered"
      BY <1>1, <1>3, <2>1, SenderNotDone
    <3> QED
      BY <3>1 DEF Done
  <2>2. CASE k # j
    BY <1>1, <1>3, <2>2 DEF Done, Posts
  <2> QED
    BY <2>1, <2>2
<1>4. ASSUME NEW k \in Jobs PROVE ChatRecorded(k)' /\ Done(remote[k], k)'
  <2>1. Done(remote[k], k)'
    BY <1>3 DEF IInv, Done, Posts
  <2>2. CASE posted'[k] = posted[k]
    BY <2>1, <2>2 DEF IInv, ChatRecorded, Posts
  <2>3. CASE k = j /\ posted'[j] = Parts(t, n + 1)
    <3>0. n + 1 \in Nat
      BY <1>1
    <3>1. Len(Parts(t, n + 1)) = n + 1
      BY <1>1, <3>0, PartsProperties
    <3>2. n + 1 <= NumParts[t]
      BY <1>1, DeliveryAssumption DEF SenderRecorded, Posts
    <3> QED
      BY <1>1, <2>1, <2>3, <3>1, <3>2 DEF ChatRecorded, SenderRecorded, Posts
  <2> QED
    BY <2>2, <2>3 DEF Posts
<1>5. ASSUME NEW r \in Sessions, NEW q \in Sessions, NEW k \in Jobs PROVE OneSender(r, q, k)'
  BY <1>2 DEF IInv, OneSender
<1>6. ASSUME NEW r \in Sessions \ {s} PROVE Own(r)'
  <2>1. Own(r)
    BY DEF IInv
  <2>2. AtLocation(r)'
    BY <2>1 DEF Own, AtLocation, Posts, Others
  <2>3. SenderRecorded(r)'
    <3>1. CASE pc[r] = "post"
      <4>1. job[r] \in Jobs /\ job[r] # j
        BY <1>1, <2>1, <3>1 DEF IInv, Own, AtLocation, OneSender, Sends
      <4> QED
        BY <2>1, <4>1 DEF Own, SenderRecorded, Posts, Others
    <3> QED
      BY <3>1 DEF SenderRecorded, Posts, Others
  <2>4. ASSUME NEW k \in Jobs PROVE CloneKnows(r, k)'
    <3>1. Unsent(r, k)' = Unsent(r, k)
      BY DEF Unsent, Posts, Others
    <3>2. CloneKnows(r, k)
      BY <2>1 DEF Own
    <3>3. CASE k = j
      BY <1>1, <3>1, <3>2, <3>3 DEF CloneKnows, Posts, Others
    <3>4. CASE k # j
      BY <1>1, <1>2, <3>1, <3>2, <3>4 DEF CloneKnows, Posts, Others
    <3> QED
      BY <3>3, <3>4
  <2>5. ASSUME NEW k \in Jobs PROVE Done(disk[r][k], k)'
    BY <1>3, <2>1 DEF Own, Done, Posts, Others
  <2> QED
    BY <2>2, <2>3, <2>4, <2>5 DEF Own
<1> QED
  BY <1>4, <1>5, <1>6 DEF IInv

-----------------------------------------------------------------------------
\* git clone: the new clone knows what the branch says.  If the branch does not
\* say that sending has begun, nobody is sending.
LEMMA CloneKeeps ==
    ASSUME IInv, TypeOK', NEW s \in Sessions, Clone(s)
    PROVE  IInv'
<1>1. /\ pc[s] = "out" /\ pc'[s] = "ready" /\ sent'[s] = 0 /\ disk'[s] = remote
      /\ remote' = remote /\ posted' = posted
  BY DEF IInv, Own, AtLocation, TypeOK, Clone
<1>2. Local(s)
  BY <1>1 DEF IInv, TypeOK, Clone, Local, Others
<1>3. ASSUME NEW j \in Jobs PROVE CloneKnows(s, j)' /\ Done(disk[s][j], j)'
  <2>1. Unsent(s, j)' => remote[j].status \in {"none", "prepared", "failed"}
    BY <1>1 DEF Unsent
  <2>2. Unsent(s, j)' => posted[j] = <<>>
    BY <2>1 DEF IInv, ChatRecorded
  <2>3. ASSUME Unsent(s, j)', NEW r \in Sessions PROVE ~Sends(r, j)'
    <3>1. ~Sends(r, j)
      BY <2>1, <2>3 DEF IInv, Own, SenderRecorded, Sends
    <3> QED
      BY <1>1, <1>2, <3>1 DEF Local, Others, Sends
  <2> QED
    BY <1>1, <2>2, <2>3 DEF IInv, CloneKnows, Done
<1>4. AtLocation(s)' /\ SenderRecorded(s)'
  BY <1>1 DEF AtLocation, SenderRecorded
<1> QED
  BY <1>2, <1>3, <1>4, LocalKeeps DEF Own

\* The end of an operation, a conflict or a crash drops the clone.
LEMMA DropKeeps ==
    ASSUME IInv, TypeOK', NEW s \in Sessions, Drop(s), UNCHANGED <<remote, posted>>
    PROVE  IInv'
<1>1. /\ pc'[s] = "out" /\ sent'[s] = 0 /\ disk'[s] = NoAttempts /\ ~fresh'[s]
  BY DEF IInv, TypeOK, Drop, Return
<1>2. Local(s)
  BY <1>1 DEF IInv, TypeOK, Drop, Return, Local, Others
<1>3. ASSUME NEW j \in Jobs PROVE CloneKnows(s, j)' /\ Done(disk[s][j], j)'
  BY <1>1 DEF CloneKnows, Done, NoAttempts, NoAttempt, Attempt
<1>4. AtLocation(s)' /\ SenderRecorded(s)'
  BY <1>1 DEF AtLocation, SenderRecorded
<1> QED
  BY <1>2, <1>3, <1>4, LocalKeeps DEF Own

\* What s knows of its clone is kept by a step that leaves the entries of the
\* clone alone and does not bring s closer to Telegram.
LEMMA SameClone ==
    ASSUME IInv, NEW s \in Sessions,
           disk'[s] = disk[s], fresh'[s] => fresh[s], posted' = posted, remote' = remote,
           pc'[s] \notin {"sending", "post"}, Others(s)
    PROVE  \A j \in Jobs : CloneKnows(s, j)' /\ Done(disk[s][j], j)'
<1> SUFFICES ASSUME NEW j \in Jobs PROVE CloneKnows(s, j)' /\ Done(disk[s][j], j)'
  OBVIOUS
<1>1. CloneKnows(s, j) /\ Done(disk[s][j], j)
  BY DEF IInv, Own
<1>2. Unsent(s, j)' => Unsent(s, j)
  BY DEF Unsent
<1>3. \A r \in Sessions : Sends(r, j)' => Sends(r, j)
  BY DEF Others, Sends
<1> QED
  BY <1>1, <1>2, <1>3 DEF CloneKnows, Done

\* Steps that only move the session.
LEMMA StayKeeps ==
    ASSUME IInv, TypeOK', NEW s \in Sessions, Save(s) \/ Resume(s)
    PROVE  IInv'
<1>1. /\ disk'[s] = disk[s] /\ fresh'[s] = fresh[s] /\ posted' = posted /\ remote' = remote
      /\ pc[s] \in {"ready", "raised"} /\ pc'[s] \in {"saving", "ready"} /\ sent'[s] = sent[s]
  BY DEF IInv, TypeOK, Save, Resume
<1>2. Local(s)
  BY <1>1 DEF IInv, TypeOK, Save, Resume, Local, Others
<1>3. AtLocation(s)' /\ SenderRecorded(s)'
  BY <1>1 DEF IInv, Own, AtLocation, SenderRecorded
<1> QED
  BY <1>1, <1>2, <1>3, LocalKeeps, SameClone DEF Own, Local

\* deliver makes an entry "sending" it finds "ambiguous".
LEMMA RecoverKeeps ==
    ASSUME IInv, TypeOK', NEW s \in Sessions, NEW j \in Jobs, NEW t \in Texts, Recover(s, j, t)
    PROVE  IInv'
<1> DEFINE a == [disk[s][j] EXCEPT !.status = "ambiguous"]
<1>1. disk[s][j] \in Entries
  BY EntryTypes DEF IInv, TypeOK
<1>2. /\ disk'[s][j] = a
      /\ \A k \in Jobs \ {j} : disk'[s][k] = disk[s][k]
      /\ \A r \in Sessions \ {s} : disk'[r] = disk[r]
  BY <1>1, EntryTypes, WriteEffect DEF IInv, Recover
<1>3. a.status = "ambiguous" /\ a.text = disk[s][j].text
  BY <1>1, EntryTypes
<1>4. /\ pc[s] = "ready" /\ disk[s][j].status = "sending"
      /\ pc'[s] = "result" /\ job'[s] = j /\ text'[s] = t /\ sent'[s] = sent[s]
      /\ fresh' = fresh /\ remote' = remote /\ posted' = posted
  BY DEF IInv, TypeOK, Recover
<1>5. Local(s)
  BY <1>2, <1>4 DEF IInv, TypeOK, Recover, Local, Others
<1>6. AtLocation(s)' /\ SenderRecorded(s)'
  BY <1>4 DEF AtLocation, SenderRecorded
<1>7. ASSUME NEW k \in Jobs PROVE CloneKnows(s, k)' /\ Done(disk[s][k], k)'
  <2>1. CloneKnows(s, k) /\ Done(disk[s][k], k)
    BY DEF IInv, Own
  <2>2. Unsent(s, k)' => Unsent(s, k)
    BY <1>2, <1>3, <1>4 DEF Unsent
  <2>3. \A r \in Sessions : Sends(r, k)' => Sends(r, k)
    BY <1>4, <1>5 DEF Local, Others, Sends
  <2>4. CASE k = j
    BY <1>2, <1>3, <1>4, <2>1, <2>2, <2>3, <2>4 DEF CloneKnows, Done
  <2>5. CASE k # j
    BY <1>2, <1>4, <2>1, <2>2, <2>3, <2>5 DEF CloneKnows, Done
  <2> QED
    BY <2>4, <2>5
<1> QED
  BY <1>5, <1>6, <1>7, LocalKeeps DEF Own

\* deliver writes "prepared" over an entry that allows sending.
LEMMA PrepareKeeps ==
    ASSUME IInv, TypeOK', NEW s \in Sessions, NEW j \in Jobs, NEW t \in Texts, Prepare(s, j, t)
    PROVE  IInv'
<1> DEFINE a == Attempt("prepared", t)
<1>1. /\ disk'[s][j] = a
      /\ \A k \in Jobs \ {j} : disk'[s][k] = disk[s][k]
      /\ \A r \in Sessions \ {s} : disk'[r] = disk[r]
  BY EntryTypes, WriteEffect DEF IInv, Prepare
<1>2. a.status = "prepared" /\ a.text = t
  BY EntryTypes
<1>3. /\ pc[s] = "ready" /\ disk[s][j].status \in {"none", "prepared", "failed"}
      /\ disk[s][j].text \in {NoText, t}
      /\ pc'[s] = "prepared" /\ job'[s] = j /\ text'[s] = t /\ sent'[s] = sent[s]
      /\ fresh' = fresh /\ remote' = remote /\ posted' = posted
  BY DEF IInv, TypeOK, Prepare, SameContent
<1>4. Local(s)
  BY <1>1, <1>3 DEF IInv, TypeOK, Prepare, Local, Others
<1>5. AtLocation(s)' /\ SenderRecorded(s)'
  BY <1>1, <1>3 DEF IInv, Own, AtLocation, SenderRecorded
<1>6. ASSUME NEW k \in Jobs PROVE CloneKnows(s, k)' /\ Done(disk[s][k], k)'
  <2>1. CloneKnows(s, k) /\ Done(disk[s][k], k)
    BY DEF IInv, Own
  <2>2. Unsent(s, k)' => Unsent(s, k)
    BY <1>1, <1>2, <1>3 DEF Unsent
  <2>3. \A r \in Sessions : Sends(r, k)' => Sends(r, k)
    BY <1>3, <1>4 DEF Local, Others, Sends
  <2>4. CASE k = j
    BY <1>1, <1>2, <1>3, <2>1, <2>2, <2>3, <2>4 DEF CloneKnows, Done
  <2>5. CASE k # j
    BY <1>1, <1>3, <2>1, <2>2, <2>3, <2>5 DEF CloneKnows, Done
  <2> QED
    BY <2>4, <2>5
<1> QED
  BY <1>4, <1>5, <1>6, LocalKeeps DEF Own

-----------------------------------------------------------------------------
\* The three ways in which a session goes on after a checkpoint.
LEMMA ContinueEffect ==
    ASSUME IInv, NEW s \in Sessions, Continue(s)
    PROVE  /\ \A r \in Sessions \ {s} :
                  /\ disk'[r] = disk[r] /\ pc'[r] = pc[r] /\ job'[r] = job[r]
                  /\ text'[r] = text[r] /\ sent'[r] = sent[r]
           /\ \/ /\ pc[s] = "prepared" /\ pc'[s] = "sending"
                 /\ job'[s] = job[s] /\ text'[s] = text[s] /\ sent'[s] = sent[s]
                 /\ disk'[s][job[s]] = Attempt("sending", text[s])
                 /\ \A k \in Jobs \ {job[s]} : disk'[s][k] = disk[s][k]
              \/ /\ pc[s] = "sending" /\ pc'[s] = "post"
                 /\ job'[s] = job[s] /\ text'[s] = text[s] /\ sent'[s] = sent[s]
                 /\ disk'[s] = disk[s]
              \/ /\ pc[s] \in {"result", "saving"} /\ pc'[s] = "ready" /\ sent'[s] = 0
                 /\ disk'[s] = disk[s]
<1>1. CASE pc[s] = "prepared"
  <2>1. job[s] \in Jobs /\ text[s] \in Texts
    BY <1>1 DEF IInv, Own, AtLocation
  <2>2. /\ Write(s, job[s], Attempt("sending", text[s]))
        /\ pc' = [pc EXCEPT ![s] = "sending"] /\ UNCHANGED <<job, text, sent>>
    BY <1>1 DEF Continue
  <2>3. /\ disk'[s][job[s]] = Attempt("sending", text[s])
        /\ \A k \in Jobs \ {job[s]} : disk'[s][k] = disk[s][k]
        /\ \A r \in Sessions \ {s} : disk'[r] = disk[r]
    BY <2>1, <2>2, EntryTypes, WriteEffect DEF IInv
  <2> QED
    BY <1>1, <2>2, <2>3 DEF IInv, TypeOK
<1>2. CASE pc[s] = "sending"
  BY <1>2 DEF IInv, TypeOK, Continue
<1>3. CASE pc[s] \in {"result", "saving"}
  <2>1. Return(s, "ready") /\ UNCHANGED disk
    BY <1>3 DEF Continue
  <2> QED
    BY <1>3, <2>1 DEF IInv, TypeOK, Return
<1> QED
  BY <1>1, <1>2, <1>3 DEF Continue

\* The entry of the running call before and after a session has pushed "prepared".
LEMMA BeginEffect ==
    ASSUME IInv, NEW s \in Sessions, pc[s] = "prepared",
           disk'[s][job[s]] = Attempt("sending", text[s])
    PROVE  /\ job[s] \in Jobs /\ text[s] \in Texts
           /\ disk[s][job[s]].status = "prepared" /\ disk[s][job[s]].text = text[s]
           /\ disk'[s][job[s]].status = "sending" /\ disk'[s][job[s]].text = text[s]
<1>1. job[s] \in Jobs /\ text[s] \in Texts /\ disk[s][job[s]] = Attempt("prepared", text[s])
  BY DEF IInv, Own, AtLocation
<1> QED
  BY <1>1, EntryTypes

\* A checkpoint that finds nothing to push never leads to Telegram.
LEMMA SkipKeeps ==
    ASSUME IInv, TypeOK', NEW s \in Sessions, pc[s] \in Checkpoints, disk[s] = head[s],
           Continue(s), UNCHANGED <<remote, head, fresh, posted>>
    PROVE  IInv'
<1>1. pc[s] # "sending"
  <2> SUFFICES ASSUME pc[s] = "sending" PROVE FALSE
    OBVIOUS
  <2>1. Attempt("sending", text[s]) = Attempt("prepared", text[s]) /\ text[s] \in Texts
    BY DEF IInv, Own, AtLocation
  <2> QED
    BY <2>1, EntryTypes
<1>2. Local(s)
  BY <1>1, ContinueEffect DEF Local, Others
<1>3. CASE pc[s] = "prepared"
  <2>1. /\ pc'[s] = "sending" /\ job'[s] = job[s] /\ text'[s] = text[s] /\ sent'[s] = sent[s]
        /\ disk'[s][job[s]] = Attempt("sending", text[s])
        /\ \A k \in Jobs \ {job[s]} : disk'[s][k] = disk[s][k]
    BY <1>3, ContinueEffect
  <2>2. AtLocation(s)' /\ SenderRecorded(s)'
    BY <1>3, <2>1 DEF IInv, Own, AtLocation, SenderRecorded
  <2>3. ASSUME NEW k \in Jobs PROVE CloneKnows(s, k)' /\ Done(disk[s][k], k)'
    <3>1. CloneKnows(s, k) /\ Done(disk[s][k], k)
      BY DEF IInv, Own
    <3>2. Unsent(s, k)' => Unsent(s, k)
      BY <1>3, <2>1, BeginEffect DEF Unsent
    <3>3. \A r \in Sessions : Sends(r, k)' => Sends(r, k)
      BY <1>2, <2>1 DEF Local, Others, Sends
    <3>4. CASE k = job[s]
      BY <1>3, <2>1, <3>1, <3>2, <3>3, <3>4, BeginEffect DEF CloneKnows, Done
    <3>5. CASE k # job[s]
      BY <2>1, <3>1, <3>2, <3>3, <3>5 DEF CloneKnows, Done
    <3> QED
      BY <3>4, <3>5
  <2> QED
    BY <1>2, <2>2, <2>3, LocalKeeps DEF Own
<1>4. CASE pc[s] \in {"result", "saving"}
  <2>1. pc'[s] = "ready" /\ sent'[s] = 0 /\ disk'[s] = disk[s]
    BY <1>4, ContinueEffect
  <2>2. AtLocation(s)' /\ SenderRecorded(s)'
    BY <2>1 DEF AtLocation, SenderRecorded
  <2>3. \A j \in Jobs : CloneKnows(s, j)' /\ Done(disk[s][j], j)'
    BY <1>2, <2>1, SameClone DEF Local
  <2> QED
    BY <1>2, <2>2, <2>3, LocalKeeps DEF Own
<1> QED
  BY <1>1, <1>3, <1>4 DEF Checkpoints

\* Only a push of the entry "sending" leads to Telegram.
LEMMA PushContinueKeeps ==
    ASSUME IInv, TypeOK', NEW s \in Sessions, pc[s] \in Checkpoints,
           Push(s), Continue(s), UNCHANGED posted
    PROVE  IInv'
<1>1. /\ fresh[s] /\ remote' = disk[s] /\ head'[s] = disk[s] /\ posted' = posted
      /\ \A r \in Sessions \ {s} : head'[r] = head[r] /\ ~fresh'[r]
  BY DEF IInv, TypeOK, Push
<1>2. Pushes(s)
  BY <1>1, ContinueEffect DEF Pushes, Others, Checkpoints
<1>3. ASSUME NEW k \in Jobs, Unsent(s, k)
      PROVE  posted[k] = <<>> /\ \A r \in Sessions : ~Sends(r, k)
  BY <1>1, <1>3 DEF IInv, Own, CloneKnows
<1>4. ASSUME NEW k \in Jobs PROVE Done(disk[s][k], k) /\ \A r \in Sessions \ {s} : Sends(r, k)' => Sends(r, k)
  BY <1>2 DEF IInv, Own, Pushes, Others, Sends
<1>5. CASE pc[s] = "prepared"
  <2>1. /\ pc'[s] = "sending" /\ job'[s] = job[s] /\ text'[s] = text[s] /\ sent'[s] = sent[s]
        /\ disk'[s][job[s]] = Attempt("sending", text[s])
        /\ \A k \in Jobs \ {job[s]} : disk'[s][k] = disk[s][k]
    BY <1>5, ContinueEffect
  <2>2. AtLocation(s)' /\ SenderRecorded(s)'
    BY <1>1, <1>5, <2>1 DEF IInv, Own, AtLocation, SenderRecorded
  <2>3. ASSUME NEW k \in Jobs PROVE CloneKnows(s, k)' /\ Done(disk[s][k], k)'
    <3>1. Unsent(s, k)' => Unsent(s, k)
      BY <1>5, <2>1, BeginEffect DEF Unsent
    <3>2. \A r \in Sessions : Sends(r, k)' => Sends(r, k)
      BY <1>4, <2>1 DEF Sends
    <3>3. CASE k = job[s]
      BY <1>1, <1>3, <1>5, <2>1, <3>1, <3>2, <3>3, BeginEffect DEF CloneKnows, Done
    <3>4. CASE k # job[s]
      BY <1>1, <1>3, <1>4, <2>1, <3>1, <3>2, <3>4 DEF CloneKnows, Done
    <3> QED
      BY <3>3, <3>4
  <2> QED
    BY <1>2, <2>2, <2>3, PushKeeps DEF Own
<1>6. CASE pc[s] = "sending"
  <2>1. /\ pc'[s] = "post" /\ job'[s] = job[s] /\ text'[s] = text[s] /\ sent'[s] = sent[s]
        /\ disk'[s] = disk[s]
    BY <1>6, ContinueEffect
  <2>2. /\ job[s] \in Jobs /\ text[s] \in Texts /\ sent[s] = 0
        /\ disk[s][job[s]] = Attempt("sending", text[s])
    BY <1>6 DEF IInv, Own, AtLocation
  <2>3. disk[s][job[s]].status = "sending" /\ disk[s][job[s]].text = text[s]
    BY <2>2, EntryTypes
  <2>4. AtLocation(s)'
    BY <2>1, <2>2 DEF AtLocation
  <2>5. SenderRecorded(s)'
    <3>1. posted[job[s]] = <<>>
      BY <1>3, <1>6, <2>2 DEF Unsent
    <3>2. Parts(text[s], 0) = <<>>
      BY <2>2, PartsProperties
    <3>3. 0 < NumParts[text[s]]
      BY <2>2, DeliveryAssumption
    <3> QED
      BY <1>1, <2>1, <2>2, <2>3, <3>1, <3>2, <3>3 DEF SenderRecorded
  <2>6. ASSUME NEW k \in Jobs PROVE CloneKnows(s, k)' /\ Done(disk[s][k], k)'
    <3>1. Unsent(s, k)' => Unsent(s, k) /\ k # job[s]
      BY <2>1, <2>3 DEF Unsent
    <3>2. k # job[s] => \A r \in Sessions : Sends(r, k)' => Sends(r, k)
      BY <1>4, <2>1 DEF Sends
    <3> QED
      BY <1>1, <1>3, <1>4, <2>1, <3>1, <3>2 DEF CloneKnows, Done
  <2> QED
    BY <1>2, <2>4, <2>5, <2>6, PushKeeps DEF Own
<1>7. CASE pc[s] \in {"result", "saving"}
  <2>1. pc'[s] = "ready" /\ sent'[s] = 0 /\ disk'[s] = disk[s]
    BY <1>7, ContinueEffect
  <2>2. AtLocation(s)' /\ SenderRecorded(s)'
    BY <2>1 DEF AtLocation, SenderRecorded
  <2>3. ASSUME NEW k \in Jobs PROVE CloneKnows(s, k)' /\ Done(disk[s][k], k)'
    <3>1. Unsent(s, k)' => Unsent(s, k)
      BY <2>1 DEF Unsent
    <3>2. \A r \in Sessions : Sends(r, k)' => Sends(r, k)
      BY <1>4, <2>1 DEF Sends
    <3> QED
      BY <1>1, <1>3, <1>4, <2>1, <3>1, <3>2 DEF CloneKnows, Done
  <2> QED
    BY <1>2, <2>2, <2>3, PushKeeps DEF Own
<1> QED
  BY <1>5, <1>6, <1>7 DEF Checkpoints

\* A failed checkpoint, whether it has pushed or not, never leads to Telegram.
LEMMA CheckpointFailsKeeps ==
    ASSUME IInv, TypeOK', NEW s \in Sessions, CheckpointFails(s)
    PROVE  IInv'
<1>1. /\ pc[s] \in Checkpoints /\ pc'[s] = "raised" /\ sent'[s] = 0
      /\ disk' = disk /\ posted' = posted
      /\ \A r \in Sessions \ {s} : /\ pc'[r] = pc[r] /\ job'[r] = job[r]
                                   /\ text'[r] = text[r] /\ sent'[r] = sent[r]
  BY DEF IInv, TypeOK, CheckpointFails, Return
<1>2. AtLocation(s)' /\ SenderRecorded(s)'
  BY <1>1 DEF AtLocation, SenderRecorded
<1>3. CASE Push(s)
  <2>1. /\ fresh[s] /\ remote' = disk[s] /\ head'[s] = disk[s]
        /\ \A r \in Sessions \ {s} : head'[r] = head[r] /\ ~fresh'[r]
    BY <1>3 DEF IInv, TypeOK, Push
  <2>2. Pushes(s)
    BY <1>1, <2>1 DEF Pushes, Others, Checkpoints
  <2>3. ASSUME NEW k \in Jobs PROVE CloneKnows(s, k)' /\ Done(disk[s][k], k)'
    <3>1. CloneKnows(s, k) /\ Done(disk[s][k], k)
      BY DEF IInv, Own
    <3>2. Unsent(s, k)' => Unsent(s, k)
      BY <1>1 DEF Unsent
    <3>3. \A r \in Sessions : Sends(r, k)' => Sends(r, k)
      BY <1>1 DEF Sends
    <3> QED
      BY <1>1, <2>1, <3>1, <3>2, <3>3 DEF CloneKnows, Done
  <2> QED
    BY <1>2, <2>2, <2>3, PushKeeps DEF Own
<1>4. CASE ~Push(s)
  <2>1. /\ remote' = remote /\ fresh' = fresh
        /\ \A r \in Sessions \ {s} : head'[r] = head[r]
    BY <1>4 DEF IInv, TypeOK, CheckpointFails
  <2>2. Local(s)
    BY <1>1, <2>1 DEF Local, Others
  <2>3. \A j \in Jobs : CloneKnows(s, j)' /\ Done(disk[s][j], j)'
    BY <1>1, <2>1, <2>2, SameClone DEF Local
  <2> QED
    BY <1>2, <2>2, <2>3, LocalKeeps DEF Own
<1> QED
  BY <1>3, <1>4

-----------------------------------------------------------------------------
\* What holds when a session asks Telegram.
LEMMA AtPost ==
    ASSUME IInv, NEW s \in Sessions, pc[s] = "post"
    PROVE  /\ job[s] \in Jobs /\ text[s] \in Texts /\ sent[s] \in Nat
           /\ posted[job[s]] = Parts(text[s], sent[s])
           /\ sent[s] < NumParts[text[s]] /\ NumParts[text[s]] \in Nat
           /\ disk[s][job[s]].status = "sending" /\ disk[s][job[s]].text = text[s]
<1>1. /\ job[s] \in Jobs /\ text[s] \in Texts /\ sent[s] \in Nat
      /\ posted[job[s]] = Parts(text[s], sent[s]) /\ sent[s] < NumParts[text[s]]
      /\ disk[s][job[s]] = Attempt("sending", text[s])
  BY DEF IInv, Own, AtLocation, SenderRecorded, TypeOK
<1>2. disk[s][job[s]].status = "sending" /\ disk[s][job[s]].text = text[s]
  BY <1>1, EntryTypes
<1>3. NumParts[text[s]] \in Nat
  BY <1>1, DeliveryAssumption
<1> QED
  BY <1>1, <1>2, <1>3

\* The effect of a part that arrives, or does not, on the chat.
LEMMA ArrivesEffect ==
    ASSUME IInv, NEW s \in Sessions, pc[s] = "post", Arrives(s)
    PROVE  /\ posted'[job[s]] = Parts(text[s], sent[s] + 1)
           /\ \A k \in Jobs \ {job[s]} : posted'[k] = posted[k]
<1>1. /\ job[s] \in Jobs /\ text[s] \in Texts /\ sent[s] \in Nat
      /\ posted[job[s]] = Parts(text[s], sent[s])
  BY AtPost
<1>2. posted' = [posted EXCEPT ![job[s]] =
                     Append(posted[job[s]], [text |-> text[s], part |-> sent[s] + 1])]
  BY DEF Arrives
<1>3. Append(Parts(text[s], sent[s]), [text |-> text[s], part |-> sent[s] + 1])
          = Parts(text[s], sent[s] + 1)
  BY <1>1, PartsProperties
<1> QED
  BY <1>1, <1>2, <1>3 DEF IInv, TypeOK

\* A part is confirmed and the next one is due.
LEMMA PartConfirmedKeeps ==
    ASSUME IInv, TypeOK', NEW s \in Sessions, PartConfirmed(s)
    PROVE  IInv'
<1>1. /\ pc[s] = "post" /\ sent[s] + 1 < NumParts[text[s]] /\ Arrives(s)
      /\ sent'[s] = sent[s] + 1 /\ \A r \in Sessions \ {s} : sent'[r] = sent[r]
      /\ UNCHANGED <<remote, disk, head, fresh, pc, job, text>>
  BY DEF IInv, TypeOK, PartConfirmed
<1>2. Posts(s)
  BY <1>1, ArrivesEffect DEF Posts, Others
<1>3. AtLocation(s)'
  BY <1>1 DEF IInv, Own, AtLocation
<1>4. SenderRecorded(s)'
  BY <1>1, AtPost, ArrivesEffect DEF IInv, Own, SenderRecorded
<1>5. ASSUME NEW k \in Jobs PROVE CloneKnows(s, k)' /\ Done(disk[s][k], k)'
  <2>1. CloneKnows(s, k) /\ Done(disk[s][k], k)
    BY DEF IInv, Own
  <2>2. Unsent(s, k)' => Unsent(s, k) /\ k # job[s]
    BY <1>1, AtPost DEF Unsent
  <2>3. \A r \in Sessions : Sends(r, k)' => Sends(r, k)
    BY <1>1 DEF Sends
  <2>4. CASE k = job[s]
    BY <1>1, <2>1, <2>2, <2>4, AtPost DEF CloneKnows, Done
  <2>5. CASE k # job[s]
    BY <1>1, <2>1, <2>2, <2>3, <2>5, ArrivesEffect DEF CloneKnows, Done
  <2> QED
    BY <2>4, <2>5
<1> QED
  BY <1>2, <1>3, <1>4, <1>5, PostKeeps DEF Own

\* The end of the requests for a job, with status st: "failed" only before the
\* first part has arrived, "delivered" only behind the last one.
LEMMA OutcomeKeeps ==
    ASSUME IInv, TypeOK', NEW s \in Sessions, pc[s] = "post",
           NEW st \in {"delivered", "failed", "ambiguous"}, Outcome(s, st),
           \A r \in Sessions \ {s} : sent'[r] = sent[r],
           Arrives(s) \/ UNCHANGED posted,
           st = "failed" => sent[s] = 0 /\ UNCHANGED posted,
           st = "delivered" => sent[s] + 1 = NumParts[text[s]] /\ Arrives(s)
    PROVE  IInv'
<1>1. /\ job[s] \in Jobs /\ text[s] \in Texts /\ sent[s] \in Nat
      /\ posted[job[s]] = Parts(text[s], sent[s])
      /\ disk[s][job[s]].status = "sending" /\ disk[s][job[s]].text = text[s]
  BY AtPost
<1>2. /\ disk'[s][job[s]].status = st /\ disk'[s][job[s]].text = text[s]
      /\ \A k \in Jobs \ {job[s]} : disk'[s][k] = disk[s][k]
      /\ \A r \in Sessions \ {s} : disk'[r] = disk[r]
  BY <1>1, EntryTypes, WriteEffect DEF IInv, Outcome
<1>3. /\ pc'[s] = "result" /\ \A r \in Sessions \ {s} : pc'[r] = pc[r]
      /\ UNCHANGED <<remote, head, fresh, job, text>>
  BY DEF IInv, TypeOK, Outcome
<1>4. /\ posted'[job[s]] \in {posted[job[s]], Parts(text[s], sent[s] + 1)}
      /\ \A k \in Jobs \ {job[s]} : posted'[k] = posted[k]
  BY ArrivesEffect
<1>5. Posts(s)
  BY <1>2, <1>3, <1>4 DEF Posts, Others
<1>6. AtLocation(s)' /\ SenderRecorded(s)'
  BY <1>1, <1>3 DEF AtLocation, SenderRecorded
<1>7. ASSUME NEW k \in Jobs PROVE CloneKnows(s, k)' /\ Done(disk[s][k], k)'
  <2>1. CloneKnows(s, k) /\ Done(disk[s][k], k)
    BY DEF IInv, Own
  <2>2. \A r \in Sessions : Sends(r, k)' => Sends(r, k) /\ r # s
    BY <1>3 DEF Sends
  <2>3. CASE k = job[s]
    <3>1. \A r \in Sessions : ~Sends(r, k)'
      BY <2>2, <2>3 DEF IInv, OneSender, Sends
    <3>2. Unsent(s, k)' => posted'[k] = <<>>
      <4> SUFFICES ASSUME Unsent(s, k)' PROVE posted'[k] = <<>>
        OBVIOUS
      <4>1. st = "failed"
        BY <1>2, <1>3, <2>3 DEF Unsent
      <4>2. Parts(text[s], 0) = <<>>
        BY <1>1, PartsProperties
      <4> QED
        BY <1>1, <2>3, <4>1, <4>2
    <3>3. Done(disk[s][k], k)'
      BY <1>1, <1>2, <2>3, ArrivesEffect DEF Done
    <3>4. fresh[s] => remote[k].status \notin {"ambiguous", "delivered"}
      BY <1>1, <2>1, <2>3 DEF CloneKnows
    <3> QED
      BY <1>1, <1>2, <1>3, <2>1, <2>3, <3>1, <3>2, <3>3, <3>4 DEF CloneKnows
  <2>4. CASE k # job[s]
    <3>1. Unsent(s, k)' => Unsent(s, k)
      BY <1>2, <1>3, <2>4 DEF Unsent
    <3> QED
      BY <1>2, <1>3, <1>4, <2>1, <2>2, <2>4, <3>1 DEF CloneKnows, Done
  <2> QED
    BY <2>3, <2>4
<1> QED
  BY <1>5, <1>6, <1>7, PostKeeps DEF Own

\* A push by somebody else only makes clones stale.
LEMMA OtherPushKeeps == IInv /\ TypeOK' /\ OtherPush => IInv'
<1> SUFFICES ASSUME IInv, TypeOK', OtherPush PROVE IInv'
  OBVIOUS
<1>1. /\ \A s \in Sessions : ~fresh'[s]
      /\ UNCHANGED <<remote, disk, head, pc, job, text, sent, posted>>
  BY DEF OtherPush
<1>2. ASSUME NEW s \in Sessions PROVE Own(s)'
  BY <1>1 DEF IInv, Own, AtLocation, SenderRecorded, CloneKnows, Done
<1> QED
  BY <1>1, <1>2 DEF IInv, ChatRecorded, Done, OneSender, Sends

\* The invariant holds initially.
LEMMA IInit == Init => IInv
<1> SUFFICES ASSUME Init PROVE IInv
  OBVIOUS
<1>1. ASSUME NEW s \in Sessions PROVE Own(s)
  BY DEF Init, Own, AtLocation, SenderRecorded, CloneKnows, Done, NoAttempts, NoAttempt, Attempt
<1>2. ASSUME NEW j \in Jobs PROVE ChatRecorded(j) /\ Done(remote[j], j)
  BY DEF Init, ChatRecorded, Done, NoAttempts, NoAttempt, Attempt
<1>3. ASSUME NEW s \in Sessions, NEW r \in Sessions, NEW j \in Jobs PROVE OneSender(s, r, j)
  BY DEF Init, OneSender, Sends
<1> QED
  BY <1>1, <1>2, <1>3, TypeInit DEF IInv

\* Every step of a session, and every push of others, keeps the invariant.
LEMMA INext == IInv /\ [Next]_vars => IInv'
<1> SUFFICES ASSUME IInv, [Next]_vars PROVE IInv'
  OBVIOUS
<1>0. TypeOK'
  BY TypeNext DEF IInv, Own
<1>1. CASE OtherPush
  BY <1>0, <1>1, OtherPushKeeps
<1>2. ASSUME NEW s \in Sessions, Clone(s) PROVE IInv'
  BY <1>0, <1>2, CloneKeeps
<1>3. ASSUME NEW s \in Sessions, Leave(s) PROVE IInv'
  BY <1>0, <1>3, DropKeeps DEF Leave
<1>4. ASSUME NEW s \in Sessions, Save(s) \/ Resume(s) PROVE IInv'
  BY <1>0, <1>4, StayKeeps
<1>5. ASSUME NEW s \in Sessions, NEW j \in Jobs, NEW t \in Texts, Recover(s, j, t) PROVE IInv'
  BY <1>0, <1>5, RecoverKeeps
<1>6. ASSUME NEW s \in Sessions, NEW j \in Jobs, NEW t \in Texts, Prepare(s, j, t) PROVE IInv'
  BY <1>0, <1>6, PrepareKeeps
<1>7. ASSUME NEW s \in Sessions, CheckpointPushes(s) PROVE IInv'
  <2>1. CASE Push(s)
    BY <1>0, <1>7, <2>1, PushContinueKeeps DEF CheckpointPushes
  <2>2. CASE ~Push(s)
    BY <1>0, <1>7, <2>2, SkipKeeps DEF CheckpointPushes
  <2> QED
    BY <2>1, <2>2
<1>8. ASSUME NEW s \in Sessions, CheckpointSkips(s) PROVE IInv'
  BY <1>0, <1>8, SkipKeeps DEF CheckpointSkips
<1>9. ASSUME NEW s \in Sessions, CheckpointConflicts(s) PROVE IInv'
  BY <1>0, <1>9, DropKeeps DEF CheckpointConflicts
<1>10. ASSUME NEW s \in Sessions, CheckpointFails(s) PROVE IInv'
  BY <1>0, <1>10, CheckpointFailsKeeps
<1>11. ASSUME NEW s \in Sessions, PartConfirmed(s) PROVE IInv'
  BY <1>0, <1>11, PartConfirmedKeeps
<1>12. ASSUME NEW s \in Sessions, LastPartConfirmed(s) PROVE IInv'
  <2>1. /\ pc[s] = "post" /\ sent[s] + 1 = NumParts[text[s]] /\ Arrives(s)
        /\ Outcome(s, "delivered") /\ \A r \in Sessions \ {s} : sent'[r] = sent[r]
    BY <1>12 DEF IInv, TypeOK, LastPartConfirmed
  <2> QED
    BY <1>0, <2>1, OutcomeKeeps
<1>13. ASSUME NEW s \in Sessions, PartUnknown(s) PROVE IInv'
  <2>1. /\ pc[s] = "post"
        /\ Arrives(s) \/ UNCHANGED posted
        /\ Outcome(s, "ambiguous") /\ sent' = sent
    BY <1>13 DEF PartUnknown
  <2> QED
    BY <1>0, <2>1, OutcomeKeeps
<1>14. ASSUME NEW s \in Sessions, PartRejected(s) PROVE IInv'
  <2>1. CASE sent[s] = 0
    <3>1. pc[s] = "post" /\ Outcome(s, "failed") /\ sent' = sent /\ UNCHANGED posted
      BY <1>14, <2>1 DEF PartRejected
    <3> QED
      BY <1>0, <2>1, <3>1, OutcomeKeeps
  <2>2. CASE sent[s] # 0
    <3>1. pc[s] = "post" /\ Outcome(s, "ambiguous") /\ sent' = sent /\ UNCHANGED posted
      BY <1>14, <2>2 DEF PartRejected
    <3> QED
      BY <1>0, <3>1, OutcomeKeeps
  <2> QED
    BY <2>1, <2>2
<1>15. CASE UNCHANGED vars
  BY <1>0, <1>15
  DEF vars, IInv, Own, AtLocation, SenderRecorded, ChatRecorded, CloneKnows, Unsent, Done,
      OneSender, Sends
<1> QED
  BY <1>1, <1>2, <1>3, <1>4, <1>5, <1>6, <1>7, <1>8, <1>9, <1>10, <1>11, <1>12, <1>13,
     <1>14, <1>15 DEF Next

\* The invariant holds in every reachable state.
LEMMA Invariance == Spec => []IInv
BY IInit, INext, PTL DEF Spec

\* The state has its type in every behaviour of deliver and its checkpoints.
THEOREM TypeCorrect == Spec => []TypeOK
<1>1. IInv => TypeOK
  BY DEF IInv
<1> QED
  BY <1>1, Invariance, PTL

\* deliver never sends a text twice: whatever is lost, retried or run beside it,
\* the chat holds a prefix of the parts of one text, in order, each of them once.
THEOREM AtMostOnce == Spec => []PostedOnce
<1>1. IInv => PostedOnce
  <2> SUFFICES ASSUME IInv, NEW j \in Jobs
               PROVE  \E t \in Texts :
                         /\ Len(posted[j]) <= NumParts[t]
                         /\ posted[j] = [i \in 1..Len(posted[j]) |-> [text |-> t, part |-> i]]
    BY DEF PostedOnce
  <2>1. CASE posted[j] = <<>>
    <3>1. PICK t \in Texts : TRUE
      BY DeliveryAssumption
    <3>2. NumParts[t] \in Nat /\ Len(posted[j]) = 0
      BY <2>1, DeliveryAssumption
    <3>3. posted[j] = [i \in 1..Len(posted[j]) |-> [text |-> t, part |-> i]]
      BY <2>1, <3>2
    <3> QED
      BY <3>2, <3>3
  <2>2. CASE posted[j] # <<>>
    BY <2>2 DEF IInv, ChatRecorded, Parts
  <2> QED
    BY <2>1, <2>2
<1> QED
  BY <1>1, Invariance, PTL

\* delivery-state.json is true: the pushed entry says that sending has begun as
\* soon as a part is in the chat, and no entry says delivered too early.
THEOREM Truthful == Spec => []RecordsTrue
<1>1. IInv => RecordsTrue
  <2> SUFFICES ASSUME IInv, NEW j \in Jobs
               PROVE  /\ \A i \in 1..Len(posted[j]) :
                            /\ remote[j].status \in {"sending", "ambiguous", "delivered"}
                            /\ remote[j].text = posted[j][i].text
                      /\ \A a \in {remote[j]} \cup {disk[s][j] : s \in Sessions} :
                            a.status = "delivered" => Len(posted[j]) = NumParts[a.text]
    BY DEF RecordsTrue
  <2>1. ASSUME NEW i \in 1..Len(posted[j])
        PROVE  /\ remote[j].status \in {"sending", "ambiguous", "delivered"}
               /\ remote[j].text = posted[j][i].text
    <3>1. posted[j] # <<>>
      BY <2>1
    <3>2. /\ remote[j].status \in {"sending", "ambiguous", "delivered"}
          /\ posted[j] = Parts(remote[j].text, Len(posted[j]))
      BY <3>1 DEF IInv, ChatRecorded
    <3>3. ASSUME NEW n, i \in 1..n PROVE Parts(remote[j].text, n)[i].text = remote[j].text
      BY <3>3 DEF Parts
    <3>4. Parts(remote[j].text, Len(posted[j]))[i].text = remote[j].text
      BY <2>1, <3>3
    <3> QED
      BY <3>2, <3>4
  <2>2. ASSUME NEW a, Done(a, j), a.status = "delivered" PROVE Len(posted[j]) = NumParts[a.text]
    <3>1. PICK t \in Texts : t = a.text /\ posted[j] = Parts(t, NumParts[t])
      BY <2>2 DEF Done
    <3>2. NumParts[t] \in Nat
      BY DeliveryAssumption
    <3>3. Len(Parts(t, NumParts[t])) = NumParts[t]
      BY <3>2, PartsProperties
    <3> QED
      BY <3>1, <3>3
  <2>3. Done(remote[j], j) /\ \A s \in Sessions : Done(disk[s][j], j)
    BY DEF IInv, Own
  <2> QED
    BY <2>1, <2>2, <2>3
<1> QED
  BY <1>1, Invariance, PTL

-----------------------------------------------------------------------------
\* What an entry promises, by its status.
LEMMA PromisedValues ==
    ASSUME NEW a
    PROVE  /\ a.status \in {"none", "prepared", "failed"} => Promised(a) = "open"
           /\ a.status = "sending" => Promised(a) = "begun"
           /\ a.status = "ambiguous" => Promised(a) = "review"
           /\ a.status = "delivered" => Promised(a) = "done"
BY Zenon DEF Promised

\* Every entry has one of the statuses.
LEMMA EntryStatus ==
    ASSUME TypeOK
    PROVE  /\ \A j \in Jobs : remote[j].status \in Statuses
           /\ \A s \in Sessions, j \in Jobs : disk[s][j].status \in Statuses
BY EntryTypes DEF TypeOK, Entries

\* Nothing of job j changes.
LEMMA PromiseStutters ==
    ASSUME NEW j \in Jobs, remote'[j] = remote[j], posted'[j] = posted[j]
    PROVE  [P(j)!PromiseNext]_(P(j)!promiseVars)
BY DEF P!promiseVars

\* A push takes the entry of job j from that of the branch to that of the clone.
LEMMA PushImplementsPromise ==
    ASSUME IInv, NEW s \in Sessions, Push(s), UNCHANGED posted, NEW j \in Jobs
    PROVE  [P(j)!PromiseNext]_(P(j)!promiseVars)
<1>1. /\ remote'[j] = disk[s][j] /\ posted'[j] = posted[j]
      /\ CloneKnows(s, j) /\ fresh[s]
      /\ Done(disk[s][j], j) /\ ChatRecorded(j)
  BY DEF IInv, Own, Push
<1>2. remote[j].status \in Statuses /\ disk[s][j].status \in Statuses
  BY EntryStatus DEF IInv
<1>3. CASE remote[j].status \in {"ambiguous", "delivered"}
  BY <1>1, <1>3, PromiseStutters DEF CloneKnows
<1>4. CASE disk[s][j].status = "ambiguous" /\ remote[j].status \notin {"ambiguous", "delivered"}
  <2>1. Promised(remote[j]) \in {"open", "begun"} /\ Promised(disk[s][j]) = "review"
    BY <1>2, <1>4, PromisedValues DEF Statuses
  <2> QED
    BY <1>1, <2>1 DEF P!PromiseNext, P!SetAside
<1>5. CASE disk[s][j].status = "delivered" /\ remote[j].status \notin {"ambiguous", "delivered"}
  <2>1. PICK t \in Texts : posted[j] = Parts(t, NumParts[t])
    BY <1>1, <1>5 DEF Done
  <2>2. NumParts[t] \in Nat \ {0}
    BY DeliveryAssumption
  <2>3. posted[j] # <<>>
    BY <2>1, <2>2, PartsProperties
  <2>4. remote[j].status = "sending"
    BY <1>1, <1>5, <2>3 DEF ChatRecorded
  <2>5. Promised(remote[j]) = "begun" /\ Promised(disk[s][j]) = "done"
    BY <1>5, <2>4, PromisedValues
  <2> QED
    BY <1>1, <2>1, <2>5 DEF P!PromiseNext, P!Complete, P!PartsOf, Parts
<1>6. CASE disk[s][j].status = "sending" /\ remote[j].status \notin {"ambiguous", "delivered"}
  <2>1. Promised(remote[j]) \in {"open", "begun"} /\ Promised(disk[s][j]) = "begun"
    BY <1>2, <1>6, PromisedValues DEF Statuses
  <2> QED
    BY <1>1, <2>1 DEF P!PromiseNext, P!promiseVars, P!Begin
<1>7. CASE /\ disk[s][j].status \in {"none", "prepared", "failed"}
           /\ remote[j].status \notin {"ambiguous", "delivered"}
  <2>1. Promised(remote[j]) \in {"open", "begun"} /\ Promised(disk[s][j]) = "open"
    BY <1>2, <1>7, PromisedValues DEF Statuses
  <2>2. posted[j] = <<>>
    BY <1>1, <1>7 DEF CloneKnows, Unsent
  <2> QED
    BY <1>1, <2>1, <2>2 DEF P!PromiseNext, P!promiseVars, P!TakeBack
<1> QED
  BY <1>2, <1>3, <1>4, <1>5, <1>6, <1>7 DEF Statuses

\* A part reaches the chat.
LEMMA ArriveImplementsPromise ==
    ASSUME IInv, NEW s \in Sessions, pc[s] = "post", Arrives(s), UNCHANGED remote,
           NEW j \in Jobs
    PROVE  [P(j)!PromiseNext]_(P(j)!promiseVars)
<1>1. CASE j # job[s]
  <2>1. posted'[j] = posted[j]
    BY <1>1 DEF Arrives, IInv, TypeOK
  <2> QED
    BY <2>1, PromiseStutters
<1>2. CASE j = job[s]
  <2>1. /\ text[s] \in Texts /\ sent[s] \in Nat /\ sent[s] < NumParts[text[s]]
        /\ posted[j] = Parts(text[s], sent[s])
        /\ remote[j].status \in {"sending", "ambiguous"}
    BY <1>2 DEF IInv, Own, AtLocation, SenderRecorded, TypeOK
  <2>2. Promised(remote[j]) \in {"begun", "review"} /\ remote'[j] = remote[j]
    BY <2>1, PromisedValues
  <2>3. /\ Len(posted[j]) = sent[s]
        /\ Append(posted[j], [text |-> text[s], part |-> sent[s] + 1]) = Parts(text[s], sent[s] + 1)
    BY <2>1, PartsProperties
  <2>4. posted'[j] = Append(posted[j], [text |-> text[s], part |-> sent[s] + 1])
    BY <1>2 DEF Arrives, IInv, TypeOK
  <2>5. posted'[j] = Parts(text[s], Len(posted[j]) + 1)
    BY <2>3, <2>4
  <2> QED
    BY <2>1, <2>2, <2>3, <2>5 DEF P!PromiseNext, P!Arrive, P!PartsOf, Parts
<1> QED
  BY <1>1, <1>2

\* Every step implements a step of the promise of each job, or leaves it alone.
LEMMA NextImplementsPromise ==
    ASSUME IInv, [Next]_vars, NEW j \in Jobs
    PROVE  [P(j)!PromiseNext]_(P(j)!promiseVars)
<1>1. CASE UNCHANGED <<remote, posted>>
  BY <1>1, PromiseStutters
<1>2. ASSUME NEW s \in Sessions, CheckpointPushes(s) PROVE [P(j)!PromiseNext]_(P(j)!promiseVars)
  <2>1. CASE Push(s)
    BY <1>2, <2>1, PushImplementsPromise DEF CheckpointPushes
  <2>2. CASE ~Push(s)
    BY <1>1, <1>2, <2>2 DEF CheckpointPushes
  <2> QED
    BY <2>1, <2>2
<1>3. ASSUME NEW s \in Sessions, CheckpointFails(s) PROVE [P(j)!PromiseNext]_(P(j)!promiseVars)
  <2>1. CASE Push(s)
    BY <1>3, <2>1, PushImplementsPromise DEF CheckpointFails
  <2>2. CASE ~Push(s)
    BY <1>1, <1>3, <2>2 DEF CheckpointFails
  <2> QED
    BY <2>1, <2>2
<1>4. ASSUME NEW s \in Sessions, PartConfirmed(s) \/ LastPartConfirmed(s) \/ PartUnknown(s)
      PROVE  [P(j)!PromiseNext]_(P(j)!promiseVars)
  <2>1. pc[s] = "post" /\ UNCHANGED remote
    BY <1>4 DEF PartConfirmed, LastPartConfirmed, PartUnknown, Outcome
  <2>2. Arrives(s) \/ UNCHANGED posted
    BY <1>4 DEF PartConfirmed, LastPartConfirmed, PartUnknown
  <2> QED
    BY <1>1, <2>1, <2>2, ArriveImplementsPromise
<1>5. ASSUME NEW s \in Sessions,
             \/ Clone(s) \/ Leave(s) \/ Save(s) \/ Resume(s)
             \/ \E k \in Jobs, t \in Texts : Recover(s, k, t) \/ Prepare(s, k, t)
             \/ CheckpointSkips(s) \/ CheckpointConflicts(s) \/ PartRejected(s)
      PROVE  UNCHANGED <<remote, posted>>
  BY <1>5 DEF Clone, Leave, Save, Resume, Recover, Prepare, CheckpointSkips,
              CheckpointConflicts, PartRejected, Outcome
<1>6. OtherPush => UNCHANGED <<remote, posted>>
  BY DEF OtherPush
<1> QED
  BY <1>1, <1>2, <1>3, <1>4, <1>5, <1>6 DEF Next, vars

\* The initial state implements that of the promise of each job.
LEMMA InitImplementsPromise == ASSUME Init, NEW j \in Jobs PROVE P(j)!PromiseInit
<1>1. remote[j].status = "none" /\ posted[j] = <<>>
  BY DEF Init, NoAttempts, NoAttempt, Attempt
<1> QED
  BY <1>1, PromisedValues DEF P!PromiseInit

\* deliver and its checkpoints implement DeliveryPromise for every job.
THEOREM Refines == Spec => KeepsPromise
<1>1. Init => \A j \in Jobs : P(j)!PromiseInit
  BY InitImplementsPromise
<1>2. IInv /\ [Next]_vars => [\A j \in Jobs : [P(j)!PromiseNext]_(P(j)!promiseVars)]_vars
  BY NextImplementsPromise
<1> QED
  BY <1>1, <1>2, Invariance, PTL DEF Spec, KeepsPromise
=============================================================================
