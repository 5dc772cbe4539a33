---------------------------- MODULE Replacement -----------------------------
(***************************************************************************)
(* What the download of a project promises: to replace what is stored by   *)
(* the contents of the project.  It starts from nothing, only adds, and    *)
(* adds only what belongs to the project; it is over when everything is    *)
(* saved that the server or its cache handed out, and stays so until the   *)
(* next download.  It may fail, and it may be cut off; then what was saved *)
(* stays as it is.                                                         *)
(***************************************************************************)
EXTENDS Naturals

VARIABLES
    number,      \* how many downloads there were: the number of this one
    contents,    \* what this download has to save
    missing,     \* what of it was not handed out
    saved,       \* what it has saved
    phase        \* "off", "loading", "failed" or "over"

replacementVars == <<number, contents, missing, saved, phase>>

ReplacementInit ==
    /\ number = 0
    /\ contents = {}
    /\ missing = {}
    /\ saved = {}
    /\ phase = "off"

\* The contents are those of whatever project was chosen.
BeginDownload ==
    /\ number' = number + 1
    /\ missing' = {}
    /\ saved' = {}
    /\ phase' = "loading"

\* Some more is saved, or turns out to be missing.  A failure is not undone, and the
\* end is not reached short of all the contents that were handed out.
Progress ==
    /\ phase \in {"loading", "failed"}
    /\ saved \subseteq saved'
    /\ missing \subseteq missing'
    /\ saved' \subseteq contents
    /\ \/ phase' = phase
       \/ phase' = "failed"
       \/ phase = "loading" /\ phase' = "over" /\ contents \ missing' \subseteq saved'
    /\ UNCHANGED <<number, contents>>

\* The application ends.  No launch resumes the download.
CutOff ==
    /\ phase' = "off"
    /\ UNCHANGED <<number, contents, missing, saved>>

ReplacementNext == BeginDownload \/ Progress \/ CutOff

ReplacementSpec == ReplacementInit /\ [][ReplacementNext]_replacementVars
=============================================================================
