----------------------------- MODULE FileFetch -----------------------------
(***************************************************************************)
(* What the download queue expects of the engine (pcs_download_handle): a  *)
(* download is begun, it ends with a result or dies with the process, and  *)
(* the file appears at its final path at once and whole, or not at all.    *)
(* What is there already, whoever made it, is left alone, unless it comes  *)
(* so late that nobody looks again.                                        *)
(***************************************************************************)
VARIABLES
    phase,     \* "on" while a download runs
    result,    \* what the last one returned, or "none"
    file       \* at the final path: "none", "user", "whole", or "late": a
               \* user's that came between the last look and the rename

Result == {"ok", "gone", "failed", "stop"}

Init == phase = "off" /\ result = "none" /\ file = "none"

Begin ==
    /\ phase = "off"
    /\ phase' = "on" /\ result' = "none"
    /\ UNCHANGED file

Publish ==
    /\ phase = "on" /\ file \in {"none", "late"}
    /\ file' = "whole"
    /\ UNCHANGED <<phase, result>>

\* A success says that there is a file.
End(r) ==
    /\ phase = "on"
    /\ r = "ok" => file # "none"
    /\ phase' = "off" /\ result' = r
    /\ UNCHANGED file

Die ==
    /\ phase' = "off" /\ result' = "none"
    /\ UNCHANGED file

Foreign ==
    /\ file = "none"
    /\ \/ file' = "user"
       \/ phase = "on" /\ file' = "late"
    /\ UNCHANGED <<phase, result>>

Next == Begin \/ Publish \/ (\E r \in Result : End(r)) \/ Die \/ Foreign

Spec == Init /\ [][Next]_<<phase, result, file>>
=============================================================================
