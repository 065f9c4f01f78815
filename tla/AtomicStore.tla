---------------------------- MODULE AtomicStore -----------------------------
(* What a caller may assume of the atomic file writer: a file is replaced   *)
(* by a whole value at one moment or not at all, the answer tells which,    *)
(* and a power loss leaves every file with a whole value.                   *)
CONSTANTS
    Paths,     \* the files
    Values,    \* the whole contents a file can have
    Missing    \* no such file

VARIABLES
    content,   \* what a reader of the file sees
    survivors, \* what a power loss may leave of it
    call       \* the write in progress: its file and value, and how far it got

storeVars == <<content, survivors, call>>

NoCall == [busy |-> FALSE]
Calls == [busy : {TRUE}, path : Paths, value : Values,
          effect : {"none", "taken", "settled"}, answered : BOOLEAN]

StoreInit ==
    /\ content \in [Paths -> Values \cup {Missing}]
    /\ survivors = [p \in Paths |-> {content[p]}]
    /\ call = NoCall

Begin(p, v) ==
    /\ call = NoCall
    /\ call' = [busy |-> TRUE, path |-> p, value |-> v, effect |-> "none", answered |-> FALSE]
    /\ UNCHANGED <<content, survivors>>

\* The new value replaces the old one; a power loss may still bring the old one back.
TakeEffect ==
    /\ call.busy
    /\ ~call.answered
    /\ call.effect = "none"
    /\ content' = [content EXCEPT ![call.path] = call.value]
    /\ survivors' = [survivors EXCEPT ![call.path] = @ \cup {call.value}]
    /\ call' = [call EXCEPT !.effect = "taken"]

\* The replacement is on disk; the answer will say so.
Settle ==
    /\ call.busy
    /\ ~call.answered
    /\ call.effect = "taken"
    /\ survivors' = [survivors EXCEPT ![call.path] = {call.value}]
    /\ call' = [call EXCEPT !.effect = "settled", !.answered = TRUE]
    /\ UNCHANGED content

\* The write ends early: nothing was changed, or the replacement is not known to be on disk.
GiveUp ==
    /\ call.busy
    /\ ~call.answered
    /\ call' = [call EXCEPT !.answered = TRUE]
    /\ UNCHANGED <<content, survivors>>

Return ==
    /\ call.busy
    /\ call.answered
    /\ call' = NoCall
    /\ UNCHANGED <<content, survivors>>

\* A change of one file outside a write: removed, or a prepared file renamed over it.
Edit(p, v, settled) ==
    /\ content' = [content EXCEPT ![p] = v]
    /\ survivors' = [survivors EXCEPT ![p] = IF settled THEN {v} ELSE @ \cup {v}]
    /\ UNCHANGED call

\* The process dies; with the power, every file falls back to a value that may survive.
Stop ==
    /\ call' = NoCall
    /\ \/ UNCHANGED <<content, survivors>>
       \/ /\ content' \in [Paths -> Values \cup {Missing}]
          /\ \A p \in Paths : content'[p] \in survivors[p]
          /\ survivors' = [p \in Paths |-> {content'[p]}]

StoreNext ==
    \/ \E p \in Paths, v \in Values : Begin(p, v)
    \/ TakeEffect \/ Settle \/ GiveUp \/ Return
    \/ \E p \in Paths, v \in Values \cup {Missing}, settled \in BOOLEAN : Edit(p, v, settled)
    \/ Stop

StoreSpec == StoreInit /\ [][StoreNext]_storeVars

=============================================================================
