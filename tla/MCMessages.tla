----------------------------- MODULE MCMessages -----------------------------
(***************************************************************************)
(* An instance of Messages for TLC: a newcomer, whose message may mention  *)
(* the bot, and somebody who greets or welcomes him.                       *)
(***************************************************************************)
EXTENDS Messages, TLC

CONSTANTS r1, r2, newcomer, greeter

Sayings == (newcomer :> {"MENTION", "MESSAGE"})
               @@ (greeter :> {"WELCOME", "GREETING"})
Greeted == greeter :> newcomer

\* Polls that overlap, without the entry decision; webhooks one at a time, as
\* deploy/modal_app.py runs them (max_containers=1), with it.
PollAndWebhook ==
    {[intake |-> "poll", entry |-> FALSE, runs |-> 2],
     [intake |-> "webhook", entry |-> TRUE, runs |-> 1]}

RunsAlike == Permutations({r1, r2})
=============================================================================
