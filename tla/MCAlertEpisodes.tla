----------------------------- MODULE MCAlertEpisodes -----------------------------
(***************************************************************************)
(* AlertDelivery with a history variable for the decision to skip an alert. *)
(***************************************************************************)
EXTENDS MCAlertDelivery

\* fresh[k]: the projects and scopes delivered since a run last ended that had
\* found the vulnerability closed in that project.
VARIABLE fresh

Ended(c) == pc[c] # "idle" /\ pc'[c] = "idle" /\ spent' = spent

Told(c, k) == [project |-> alerts[c][k[1]].project, scope |-> Current(c, k)]

FreshStep ==
  fresh' = [k \in Pairs |->
    LET ended == {c \in Checkers : Ended(c)}
        now == {d \in fresh[k] : \A c \in ended : seen[c][d.project][k[2]] # {}}
    IN  now \cup {Told(c, k) : c \in {d \in Checkers : k \in todo[d] /\ hist'[k].sends > hist[k].sends}}]

EpisodeSpec ==
  /\ Init /\ fresh = [k \in Pairs |-> {}]
  /\ [][Next /\ FreshStep]_<<vars, fresh>>

\* A pair is only skipped when its alert was delivered for the project and the
\* services it has now, and the finding was not seen closed since
\* (_DeliveryAction.SKIP, "already delivered for the current scope").
SkippedWasTold ==
  [][\A c \in Checkers, k \in Pairs :
       /\ k \in todo[c] /\ k \notin todo'[c] /\ pc'[c] = "send"
       /\ hist' = hist /\ existing'[c] = existing[c]
       /\ RowsOf(existing[c][k], "sent") # {}
       => Told(c, k) \in fresh[k]]_<<vars, fresh>>
=============================================================================
