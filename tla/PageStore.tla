----------------------------- MODULE PageStore -----------------------------
(***************************************************************************)
(* What the encrypted VFS gives the application: a durable image.  A       *)
(* transaction's pages reach it one by one while they are being written,   *)
(* all of them by the end of a commit and none after a rollback; power     *)
(* lost in between leaves some of them.  Nothing else ever changes it.     *)
(***************************************************************************)
CONSTANTS Page, Image

VARIABLES
    up,      \* is a session running?
    store,   \* the image the next open serves
    writing  \* the image of the transaction being written, as a set of at most one

Init == up = FALSE /\ store \in Image /\ writing = {}

Boot == /\ ~up /\ up' = TRUE
        /\ UNCHANGED <<store, writing>>

Write == /\ up /\ writing = {}
         /\ writing' \subseteq Image
         /\ \E img \in writing' : writing' = {img}
         /\ UNCHANGED <<up, store>>

Commit == /\ up /\ store' \in writing /\ writing' = {}
          /\ UNCHANGED up

Rollback == /\ up /\ writing # {} /\ writing' = {}
            /\ UNCHANGED <<up, store>>

\* Each page of new is old's page or the page of the image being written.
Between(old, new) == \A p \in Page : new[p] \in {old[p]} \cup {img[p] : img \in writing}

\* The session ends, cleanly or not.
Stop == /\ up /\ up' = FALSE
        /\ store' \in Image /\ Between(store, store')
        /\ writing' = {}

Next == Boot \/ Write \/ Commit \/ Rollback \/ Stop

Spec == Init /\ [][Next]_<<up, store, writing>>
=============================================================================
