------------------------------- MODULE PageStore -------------------------------
(***************************************************************************)
(* What the buffer pool promises to its clients, without frames, disk or   *)
(* eviction: a store of pages under one lock per page, shared by readers   *)
(* and exclusive for a writer.  A guard shows what was last written to its *)
(* page, through any guard; the content of a page that was created and     *)
(* never written is left open.  The last write to a page may be lost to a  *)
(* failing disk, as long as nobody has a guard of the page.                *)
(***************************************************************************)
CONSTANTS Threads, Pages, Existing, Values, Initial, Zero, Absent, Unwritten, NoPage

VARIABLES
    content,    \* the last value written to each page
    guarded,    \* the page each thread holds a guard of
    writing,    \* is the guard a write guard?
    view        \* the bytes behind the guard

store == <<content, guarded, writing, view>>

Init ==
    /\ content = [p \in Pages |-> IF p \in Existing THEN Initial ELSE Absent]
    /\ guarded = [t \in Threads |-> NoPage]
    /\ writing = [t \in Threads |-> FALSE]
    /\ view = [t \in Threads |-> Absent]

(* What a guard of a page with this content may show. *)
Shows(c) == IF c = Unwritten THEN Values \cup {Zero} ELSE {c}

Grant(t, p, w, c) ==
    /\ guarded[t] = NoPage
    /\ \A u \in Threads : guarded[u] = p => ~w /\ ~writing[u]
    /\ guarded' = [guarded EXCEPT ![t] = p]
    /\ writing' = [writing EXCEPT ![t] = w]
    /\ \E d \in Shows(c) : view' = [view EXCEPT ![t] = d]

Fetch(t, p, w) ==
    /\ content[p] # Absent
    /\ Grant(t, p, w, content[p])
    /\ UNCHANGED content

Create(t, p) ==
    /\ content[p] = Absent
    /\ Grant(t, p, TRUE, Unwritten)
    /\ content' = [content EXCEPT ![p] = Unwritten]

Write(t, v) ==
    /\ guarded[t] # NoPage
    /\ writing[t]
    /\ content' = [content EXCEPT ![guarded[t]] = v]
    /\ view' = [view EXCEPT ![t] = v]
    /\ UNCHANGED <<guarded, writing>>

Drop(t) ==
    /\ guarded[t] # NoPage
    /\ guarded' = [guarded EXCEPT ![t] = NoPage]
    /\ writing' = [writing EXCEPT ![t] = FALSE]
    /\ view' = [view EXCEPT ![t] = Absent]
    /\ UNCHANGED content

Lose(p) ==
    /\ content[p] # Absent
    /\ \A t \in Threads : guarded[t] # p
    /\ \E c \in Values \cup {Unwritten} : content' = [content EXCEPT ![p] = c]
    /\ UNCHANGED <<guarded, writing, view>>

Next ==
    \/ \E p \in Pages : Lose(p)
    \/ \E t \in Threads :
        \/ \E p \in Pages : Create(t, p) \/ \E w \in BOOLEAN : Fetch(t, p, w)
        \/ \E v \in Values : Write(t, v)
        \/ Drop(t)

Spec == Init /\ [][Next]_store
=============================================================================
