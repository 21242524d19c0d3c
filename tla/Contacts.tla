------------------------------ MODULE Contacts ------------------------------
(***************************************************************************)
(* The contact book of a device (pairing/contacts.go): a map behind an     *)
(* RWMutex, and a file written as a whole.  Save holds the read lock until *)
(* it has written, so two Saves may run together, but no Add between the   *)
(* list a Save makes and its write.  A user of the book is a goroutine     *)
(* that adds a contact and saves.                                          *)
(***************************************************************************)
EXTENDS Naturals, FiniteSets

CONSTANTS
    Devices,
    Users,          \* the goroutines that use a book
    Unreadable

ASSUME ContactsAssumption ==
    /\ IsFiniteSet(Devices)
    /\ \A list \in SUBSET Devices : list # Unreadable

VARIABLES
    book,       \* the contacts in memory, of each device
    disk,       \* contacts.json: Unreadable, or the contacts it lists
    save,       \* how far each user of each book is, and the list it saves
    kept        \* history: the contacts of the Saves that have returned

bookVars == <<book, disk, save, kept>>

\* LoadContacts of a missing file: an empty book.
BookInit ==
    /\ book = [d \in Devices |-> {}]
    /\ disk = [d \in Devices |-> {}]
    /\ save = [d \in Devices |-> [u \in Users |-> [step |-> "none", list |-> {}]]]
    /\ kept = [d \in Devices |-> {}]

\* Save holds the read lock of the book.
ReadLocked(d) == \E u \in Users : save[d][u].step = "save"

\* Add waits for the readers.  The variant does not.
Add_Unlocked(d, u, c) ==
    /\ save[d][u].step = "none"
    /\ save' = [save EXCEPT ![d][u].step = "added"]
    /\ book' = [book EXCEPT ![d] = @ \cup {c}]
    /\ UNCHANGED <<disk, kept>>

Add(d, u, c) ==
    /\ save[d][u].step = "none" /\ ~ReadLocked(d)
    /\ save' = [save EXCEPT ![d][u].step = "added"]
    /\ book' = [book EXCEPT ![d] = @ \cup {c}]
    /\ UNCHANGED <<disk, kept>>

\* Save: the list; os.WriteFile empties the file and writes it.  Two Saves at
\* a time write the same contacts over each other.
SaveBegin(d, u) ==
    /\ save[d][u].step = "added"
    /\ save' = [save EXCEPT ![d][u] = [step |-> "save", list |-> book[d]]]
    /\ disk' = [disk EXCEPT ![d] = Unreadable]
    /\ UNCHANGED <<book, kept>>

SaveWrite(d, u) ==
    /\ save[d][u].step = "save"
    /\ disk' = [disk EXCEPT ![d] = save[d][u].list]
    /\ kept' = [kept EXCEPT ![d] = @ \cup save[d][u].list]
    /\ save' = [save EXCEPT ![d][u] = [step |-> "saved", list |-> {}]]
    /\ UNCHANGED book

-----------------------------------------------------------------------------
BookTypeOK ==
    /\ book \in [Devices -> SUBSET Devices]
    /\ disk \in [Devices -> {Unreadable} \cup SUBSET Devices]
    /\ save \in [Devices -> [Users -> [step : {"none", "added", "save", "saved"},
                                       list : SUBSET Devices]]]
    /\ kept \in [Devices -> SUBSET Devices]

\* A contact that was saved stays saved: once a Save that had it has returned,
\* no other Save of the device, however the two overlapped, leaves a file
\* without it, or one that cannot be read.
SavedContactStays ==
    \A d \in Devices :
        ~ReadLocked(d) => disk[d] # Unreadable /\ kept[d] \subseteq disk[d]
=============================================================================
