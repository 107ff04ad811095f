--------------------------- MODULE MC_NotifyTwice ---------------------------
(* NotificationDelivery for TLC: two dispatchers and a provider that        *)
(* reports nothing.                                                        *)
EXTENDS NotificationDelivery

MCAnswers == {[state |-> "sent", bound |-> TRUE], [state |-> "unknown", bound |-> FALSE]}
=============================================================================
