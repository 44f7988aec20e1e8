------------------------------- MODULE WalFile -------------------------------
(***************************************************************************)
(* The bytes of wal.current (common/fault_tolerance/wal).  WALWriter opens *)
(* the file with O_APPEND and writes a record (header, then payload) with  *)
(* one or more os.write calls before it fsyncs; WALReader walks the        *)
(* records from the start of the file.  A write may stop half way, either  *)
(* because the process dies or because os.write raises (a full disk).      *)
(*                                                                         *)
(* Abstracted: a cell stands for a run of bytes; it tells which record it  *)
(* belongs to, where in the record it lies, and the record's size, which   *)
(* is what the header encodes.                                             *)
(***************************************************************************)
EXTENDS Sequences, SequencesExt, Naturals

CONSTANTS
    HeaderCells,    \* HEADER_SIZE
    MaxPayload,     \* bound: cells of a payload
    MaxRecords,     \* bound: appends attempted
    MaxTears,       \* bound: appends cut short
    Garbled         \* a record that does not decode

ASSUME WalConstants ==
    /\ HeaderCells \in Nat \ {0} /\ MaxPayload \in Nat
    /\ MaxRecords \in Nat /\ MaxTears \in Nat
    /\ Garbled \notin 1 .. MaxRecords

VARIABLES
    file,       \* the cells of wal.current
    logged,     \* history: records written whole since the last rotation; a
                \* process crash before the fsync keeps them too
    up,         \* the process runs and has the file open
    attempts,   \* appends attempted so far; numbers the records
    tears,      \* appends cut short so far
    buried      \* history: something was written after a cut-short record

vars == <<file, logged, up, attempts, tears, buried>>

Cells(id, size) == [i \in 1 .. size |-> [id |-> id, at |-> i, size |-> size]]

(* size cells of one record lie at p, in order. *)
WholeAt(f, p, size) ==
    \A i \in 0 .. size - 1 : f[p + i].id = f[p].id /\ f[p + i].at = i + 1

(* Mutant: a payload that ends with the file is decoded as it is. *)
ReplayedUnchecked(f) ==
    LET Read[p \in 1 .. Len(f) + 1] ==
            IF p + HeaderCells - 1 > Len(f) THEN <<>>
            ELSE IF WholeAt(f, p, HeaderCells) /\ p + f[p].size - 1 <= Len(f)
                    /\ WholeAt(f, p, f[p].size)
                 THEN <<f[p].id>> \o Read[p + f[p].size]
                 ELSE <<Garbled>>
    IN  Read[1]

(* WALReader.records with decode_record: stop at a header or a payload the *)
(* file ends in; a header or payload mixed from two records makes the      *)
(* decoder raise.                                                          *)
Replayed(f) ==
    LET Read[p \in 1 .. Len(f) + 1] ==
            IF p + HeaderCells - 1 > Len(f) THEN <<>>
            ELSE IF ~WholeAt(f, p, HeaderCells) THEN <<Garbled>>
            ELSE IF p + f[p].size - 1 > Len(f) THEN <<>>
            ELSE IF WholeAt(f, p, f[p].size) THEN <<f[p].id>> \o Read[p + f[p].size]
            ELSE <<Garbled>>
    IN  Read[1]

(* The file ends in a record that was cut short. *)
TornTail ==
    file # <<>> /\ LET c == file[Len(file)] IN c.at < c.size

Init == /\ file = <<>> /\ logged = <<>> /\ up = TRUE
        /\ attempts = 0 /\ tears = 0 /\ buried = FALSE

(* WALWriter._write_record to the end ... *)
WriteRecord(size) ==
    /\ up /\ attempts < MaxRecords
    /\ attempts' = attempts + 1
    /\ file' = file \o Cells(attempts', size)
    /\ logged' = Append(logged, attempts')
    /\ buried' = (buried \/ TornTail)
    /\ UNCHANGED <<up, tears>>

(* ... or cut short after `written` cells, by a crash or by an exception   *)
(* (the handler then nacks its message and goes on with the same file).    *)
TearRecord(size, written) ==
    /\ up /\ attempts < MaxRecords /\ tears < MaxTears
    /\ attempts' = attempts + 1 /\ tears' = tears + 1
    /\ file' = file \o SubSeq(Cells(attempts', size), 1, written)
    /\ up' \in BOOLEAN
    /\ buried' = (buried \/ TornTail)
    /\ UNCHANGED logged

Crash == up /\ up' = FALSE /\ UNCHANGED <<file, logged, attempts, tears, buried>>

(* recover() reads the whole file; if decoding raises, so does recover(),  *)
(* and the worker does not start.  The writer reopens the file as it is.   *)
Restart == /\ ~up /\ Garbled \notin Range(Replayed(file))
           /\ up' = TRUE
           /\ UNCHANGED <<file, logged, attempts, tears, buried>>

(* Mutant: the old segment is not moved aside. *)
RotateKeepsFile == /\ up /\ logged' = <<>> /\ buried' = FALSE
                   /\ UNCHANGED <<file, up, attempts, tears>>

(* Wal.rotate, after a snapshot. *)
Rotate == /\ up /\ file' = <<>> /\ logged' = <<>> /\ buried' = FALSE
          /\ UNCHANGED <<up, attempts, tears>>

Sizes == HeaderCells .. HeaderCells + MaxPayload

Next == \/ \E size \in Sizes :
              \/ WriteRecord(size)
              \/ \E written \in 1 .. size - 1 : TearRecord(size, written)
        \/ Crash \/ Restart \/ Rotate

Spec == Init /\ [][Next]_vars

-----------------------------------------------------------------------------
(* A record cut short by a crash is skipped: as long as nothing is written *)
(* after it, a restart reads back exactly the records that were fsynced.   *)
CleanStop == ~buried => Replayed(file) = logged

(* Whatever was torn and buried, replay never invents, repeats or reorders *)
(* a record: what it yields before it stops or raises is a prefix of what  *)
(* was fsynced since the last rotation.                                    *)
NothingInvented ==
    LET r == Replayed(file)
    IN  IsPrefix(IF Garbled \in Range(r) THEN Front(r) ELSE r, logged)

(* "No confirmed message is lost": every record that was written whole and *)
(* fsynced since the last snapshot is read back.                           *)
NothingLoggedIsLost == Range(logged) \subseteq Range(Replayed(file))

=============================================================================
