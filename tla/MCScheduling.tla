---------------------------- MODULE MCScheduling ----------------------------
(***************************************************************************)
(* Model values for Scheduling: people reached by Telegram (t1, t2) and by *)
(* mail (g1), one request, and the adapters of the deployment: everything, *)
(* or no bot in the context and no calendar tool.                          *)
(***************************************************************************)
EXTENDS Scheduling, TLC

CONSTANTS r1, t1, t2, g1

OneRequest == {r1}
TelegramAndMail == {t1, g1}
TwoOnTelegram == {t1, t2}
OnTelegram == {t1}

Everything == {{"bot", "gmail", "calendar"}}
SomeWirings == Everything \cup {{"gmail"}}
BotAndCalendar == {{"bot", "calendar"}}
=============================================================================
