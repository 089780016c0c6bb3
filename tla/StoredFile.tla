----------------------------- MODULE StoredFile -----------------------------
(***************************************************************************)
(* What the flash file system promises of one file, without its layout:    *)
(* a save replaces the content in one step, and until that step a crash    *)
(* leaves the previous content, unless the save has to rewrite the block   *)
(* that holds it (FlashStorage.h, FlashStorage.cpp).  FlashFile implements *)
(* this module; the modules of the file system's clients use it.           *)
(***************************************************************************)
CONSTANTS
    Contents,       \* the contents that may be saved
    NoContent       \* what a reader gets when there is nothing to read, no element of Contents

VARIABLES
    content,        \* what a reader gets
    owed,           \* the content of the last completed save
    pending,        \* the content being saved
    phase           \* "idle", "append", "exposed" or "commit"

vars == <<content, owed, pending, phase>>

Readable == Contents \cup {NoContent}

Init ==
    /\ content = NoContent
    /\ owed = NoContent
    /\ pending = NoContent
    /\ phase = "idle"

\* a save begins, next to the current content or over it
Open ==
    /\ phase = "idle"
    /\ pending' \in Contents
    /\ phase' \in {"append", "exposed"}
    /\ UNCHANGED <<content, owed>>

\* the storage of the current content is about to be rewritten
Expose ==
    /\ phase = "append"
    /\ phase' = "exposed"
    /\ UNCHANGED <<content, owed, pending>>

\* while it is, a reader may get anything
Rewrite ==
    /\ phase = "exposed"
    /\ content' \in Readable
    /\ UNCHANGED <<owed, pending, phase>>

\* it has been put back
PutBack ==
    /\ phase = "exposed"
    /\ content' = owed
    /\ phase' = "append"
    /\ UNCHANGED <<owed, pending>>

\* all the data is stored and only the header is missing
Prepare ==
    /\ phase = "append"
    /\ phase' = "commit"
    /\ UNCHANGED <<content, owed, pending>>

Commit ==
    /\ phase \in {"commit", "exposed"}
    /\ content' = pending
    /\ owed' = pending
    /\ pending' = NoContent
    /\ phase' = "idle"

Delete ==
    /\ phase = "idle"
    /\ content' = NoContent
    /\ owed' = NoContent
    /\ UNCHANGED <<pending, phase>>

\* a crash loses nothing while a save appends; a header, an erase or a rewrite
\* that is cut off may leave anything, an earlier content included, and so may a
\* save that is refused in the middle, because the content turned out too long
Crash ==
    /\ IF phase = "append" THEN UNCHANGED content ELSE content' \in Readable
    /\ owed' = content'
    /\ pending' = NoContent
    /\ phase' = "idle"

Next == Open \/ Expose \/ Rewrite \/ PutBack \/ Prepare \/ Commit \/ Delete \/ Crash

Spec == Init /\ [][Next]_vars
=============================================================================
