------------------------------- MODULE FatDir -------------------------------
(***************************************************************************)
(* Mounting a volume and searching its root directory: root_entry looks    *)
(* for the next regular file from a cursor on, keeping one sector of       *)
(* entries in a buffer; the dir system call lists every file with it, and  *)
(* fat_open finds one by its name.                                         *)
(***************************************************************************)
EXTENDS FatVolume, ShortNames, Integers

CONSTANTS
  Keys,       \* the names of regular files, as directory entries hold them
  Names       \* the names programs open

VARIABLES
  dir,        \* the directory on the disk, once the volume is mounted
  call,       \* "syscall_dir", "fat_open" or "idle"
  name, key,  \* the name fat_open is called with, and what it is searched as
  cursor,     \* where this call of root_entry started
  i,          \* its loop variable
  sector,     \* the sector its buffer holds, -1 before the first is read
  listed,     \* the names written by syscall_dir
  result      \* 0 for the end, -1 for an error, else the entry found plus one

vars == <<volumeVars, dir, call, name, key, cursor, i, sector, listed, result>>

\* Besides a name, an entry may be the end mark, deleted, or something that is
\* not a regular file: a long name, a label or a directory.
END == << "end" >>
DELETED == << "deleted" >>
OTHER_KIND == << "other" >>

Entries == Keys \union {END, DELETED, OTHER_KIND}

\* The first byte and the attributes of an entry tell a file from these.
ASSUME KeysAssumption == Keys \intersect {END, DELETED, OTHER_KIND} = {}

Init ==
  /\ VolumeInit
  /\ dir = <<>>
  /\ call = "idle" /\ name = <<>> /\ key = <<>>
  /\ cursor = 0 /\ i = 0 /\ sector = -1
  /\ listed = <<>> /\ result = 0

root_entries == boot.root_entries

\* c_entry mounts the volume; nothing runs if it cannot.  What the directory
\* holds is chosen once it is known where it lies.
Mount ==
  /\ fat_init
  /\ dir' \in IF mounted' THEN [0 .. root_entries - 1 -> Entries] ELSE {dir}
  /\ UNCHANGED <<call, name, key, cursor, i, sector, listed, result>>

Call(which, n) ==
  /\ mounted /\ call = "idle"
  /\ call' = which /\ name' = n
  /\ key' = IF which = "fat_open" THEN short_name(n) ELSE <<>>
  /\ cursor' = 0 /\ i' = 0 /\ sector' = -1
  /\ listed' = <<>> /\ result' = 0
  /\ UNCHANGED <<volumeVars, dir>>

\* The call returns r.
Return(r) ==
  /\ call' = "idle" /\ result' = r
  /\ UNCHANGED <<volumeVars, dir, name, key, cursor, listed>>

-----------------------------------------------------------------------------
\* root_entry.  ReloadOnlyAtStart reads a sector at the cursor only.
ReloadOnlyAtStart == i = cursor

NeedsSector == i = cursor \/ i % PER_SECTOR = 0

Buffer == IF NeedsSector THEN i \div PER_SECTOR ELSE sector

Raw == dir[Buffer * PER_SECTOR + (i % PER_SECTOR)]

ResumeBehind == cursor' = i + 1 /\ i' = i + 1

\* The file has another name.  StopAtOther leaves the loop.
StopAtOther == Return(0) /\ UNCHANGED i

OtherName == ResumeBehind /\ UNCHANGED <<volumeVars, dir, call, name, key, listed, result>>

\* root_entry found a file: it is listed or compared with the name, and the
\* search goes on behind it.
FoundFile ==
  \/ /\ call = "fat_open" /\ Raw = key
     /\ Return(i + 1)
     /\ UNCHANGED i
  \/ /\ call = "fat_open" /\ Raw # key
     /\ OtherName
  \/ /\ call = "syscall_dir"
     /\ listed' = Append(listed, ShownName(Raw))
     /\ ResumeBehind
     /\ UNCHANGED <<volumeVars, dir, call, name, key, result>>

Skipped == Raw \in {DELETED, OTHER_KIND}

Searching == call # "idle" /\ key # REFUSED

\* fat_open refuses a name that is not of the form 8.3 before it searches.
Refuse ==
  /\ call # "idle" /\ key = REFUSED
  /\ Return(0)
  /\ UNCHANGED <<i, sector>>

\* root_entry's first test never fails here: calls are made on a mounted volume,
\* with a cursor of 0 or behind an entry.
Turn ==
  /\ Searching /\ i < root_entries
  /\ sector' = Buffer
  /\ IF Raw = END THEN Return(0) /\ UNCHANGED i
     ELSE IF Skipped
     THEN i' = i + 1 /\ UNCHANGED <<volumeVars, dir, call, name, key, cursor, listed, result>>
     ELSE FoundFile

AtEnd ==
  /\ Searching /\ i = root_entries
  /\ Return(0)
  /\ UNCHANGED <<i, sector>>

ReadFails ==
  /\ Searching /\ i < root_entries /\ NeedsSector
  /\ Return(-1)
  /\ UNCHANGED <<i, sector>>

Next ==
  \/ Mount
  \/ Call("syscall_dir", <<>>)
  \/ \E n \in Names : Call("fat_open", n)
  \/ Refuse \/ Turn \/ AtEnd \/ ReadFails

Spec == Init /\ [][Next]_vars

-----------------------------------------------------------------------------
\* The entries below k and before the end mark.
Before(k) == {j \in 0 .. k - 1 : \A m \in 0 .. j : dir[m] # END}

\* The names of the regular files among the entries below k, in their order.
Listing ==
  LET l[k \in 0 .. root_entries] ==
        IF k = 0 THEN <<>>
        ELSE IF k - 1 \in Before(k) /\ dir[k - 1] \in Keys
        THEN Append(l[k - 1], ShownName(dir[k - 1])) ELSE l[k - 1]
  IN  l

\* While the directory is listed, every regular file before the place reached
\* has been listed exactly once and in order, whatever deleted entries, long
\* names and sector boundaries lie between; at the end, all of them.
ListsEachOnce ==
  /\ call = "syscall_dir" => listed = Listing[i]
  /\ call = "idle" /\ listed # <<>> /\ result = 0 => listed = Listing[root_entries]

\* The entries that syscall_dir shows under the name, or that differ from it
\* in the case of letters only.
Holders ==
  {j \in Before(root_entries) :
     dir[j] \in Keys /\ ShownName(dir[j]) = [k \in DOMAIN name |-> UpperCase(name[k])]}

\* The two conversions agree on the names that are opened: a name is searched
\* as a file's key exactly if the file is shown under it, letters in upper case.
NamesAgree ==
  \A n \in Names, k \in Keys :
    (short_name(n) # REFUSED /\ short_name(n) = k)
      <=> ShownName(k) = [j \in DOMAIN n |-> UpperCase(n[j])]

\* fat_open finds the first file that dir lists under the name, in any case of
\* letters, and reports that there is none only if dir lists none: the two
\* conversions between names and directory entries (short_name, fat_next)
\* agree, and no name that short_name refuses or cuts is that of a file.
OpenResult ==
  [][ call = "fat_open" /\ call' = "idle" =>
        \/ result' = -1
        \/ result' = 0 /\ Holders = {}
        \/ result' - 1 \in Holders /\ \A j \in Holders : result' - 1 <= j ]_vars
=============================================================================
