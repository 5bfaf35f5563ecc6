--------------------------- MODULE DeliveryPromise ---------------------------
(***************************************************************************)
(* What the bot promises about one Telegram delivery job                   *)
(* (src/tawg_bot/delivery.py: DeliveryFailed, DeliveryAmbiguous and the    *)
(* deliver method), without saying how: no checkouts, no pushes and no     *)
(* sessions.                                                               *)
(*                                                                         *)
(*   - nothing reaches the chat before the durable record says that        *)
(*     sending may have begun;                                             *)
(*   - the parts of one text reach it in order, each of them once;         *)
(*   - sending may be taken back, and the job started again, only while    *)
(*     nothing has reached the chat;                                       *)
(*   - the record says "done" only when every part has arrived, and        *)
(*     neither "done" nor "review" is ever taken back.                     *)
(***************************************************************************)
EXTENDS Naturals, Sequences

CONSTANTS Texts,      \* the texts the job may be asked to deliver
          NumParts    \* how many messages and documents a text is sent as

VARIABLES record,     \* "open", "begun", "review" or "done"
          chat        \* the parts that reached the chat, in order

promiseVars == <<record, chat>>

\* The first n parts of text t, in order.
PartsOf(t, n) == [i \in 1..n |-> [text |-> t, part |-> i]]

PromiseInit == record = "open" /\ chat = <<>>

Begin == /\ record = "open"
         /\ record' = "begun"
         /\ UNCHANGED chat

TakeBack == /\ record = "begun"
            /\ chat = <<>>
            /\ record' = "open"
            /\ UNCHANGED chat

\* Another worker may have set the job aside for review while the parts are
\* still being sent.
Arrive == /\ record \in {"begun", "review"}
          /\ \E t \in Texts : /\ chat = PartsOf(t, Len(chat))
                              /\ Len(chat) < NumParts[t]
                              /\ chat' = PartsOf(t, Len(chat) + 1)
          /\ UNCHANGED record

SetAside == /\ record \in {"open", "begun"}
            /\ record' = "review"
            /\ UNCHANGED chat

Complete == /\ record = "begun"
            /\ \E t \in Texts : chat = PartsOf(t, NumParts[t])
            /\ record' = "done"
            /\ UNCHANGED chat

PromiseNext == Begin \/ TakeBack \/ Arrive \/ SetAside \/ Complete

PromiseSpec == PromiseInit /\ [][PromiseNext]_promiseVars
=============================================================================
