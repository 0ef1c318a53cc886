----------------------- MODULE MCPublishEngineClient -----------------------
(***************************************************************************)
(* A small instance of PublishEngineClient for TLC.                        *)
(***************************************************************************)
EXTENDS PublishEngineClient

\* Headers the engine sends: at once, longer than the cap, negative, unreadable,
\* a date that is past for some attempts and to come for others.
Headers == {[kind |-> "seconds", value |-> 0], [kind |-> "seconds", value |-> 9],
            [kind |-> "seconds", value |-> -1], [kind |-> "date", value |-> 2],
            [kind |-> "unreadable", value |-> 0]}

=============================================================================
