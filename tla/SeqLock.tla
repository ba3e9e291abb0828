------------------------------- MODULE SeqLock -------------------------------
(***************************************************************************)
(* The sequence lock of seqlock.h around a datum of two words.  The        *)
(* sequence is odd while a writer is inside.  seqcount_t is the same with  *)
(* a lock of the caller's.                                                 *)
(***************************************************************************)
EXTENDS Integers

CONSTANTS
  SeqWriters, SeqReaders, NoWriter,
  SeqModulus,   (* 2^32 in the code                                        *)
  MaxWrites     (* bound: the writes in a behaviour                        *)

VARIABLES
  sequence, seq_owner,
  words,        (* the datum: both words of one write are the same number  *)
  wpc,          (* where a writer is                                       *)
  reader,       (* where a reader is, its sequence and what it has read    *)
  writes

sqvars == <<sequence, seq_owner, words, wpc, reader, writes>>

Bump == sequence' = (sequence + 1) % SeqModulus
Fresh == [pc |-> "out", iv |-> 0, first |-> 0, second |-> 0]

SeqInit ==
  /\ sequence \in {0, SeqModulus - 2} /\ seq_owner = NoWriter
  /\ words = <<0, 0>>
  /\ wpc = [w \in SeqWriters |-> "out"]
  /\ reader = [r \in SeqReaders |-> Fresh]
  /\ writes = 0

(* write_seqlock and write_tryseqlock: the spin lock, then the sequence. *)
SeqLockTaken(w) ==
  /\ wpc[w] = "out" /\ seq_owner = NoWriter /\ writes < MaxWrites
  /\ seq_owner' = w
  /\ writes' = writes + 1
  /\ wpc' = [wpc EXCEPT ![w] = "begin"]
  /\ UNCHANGED <<sequence, words, reader>>

(* Mutant: the writer does not tell the readers that it begins. *)
SeqBeginSilent(w) ==
  /\ wpc[w] = "begin"
  /\ wpc' = [wpc EXCEPT ![w] = "first"]
  /\ UNCHANGED <<sequence, seq_owner, words, reader, writes>>

SeqBegin(w) ==
  /\ wpc[w] = "begin"
  /\ Bump
  /\ wpc' = [wpc EXCEPT ![w] = "first"]
  /\ UNCHANGED <<seq_owner, words, reader, writes>>

WriteWord(w) ==
  /\ wpc[w] \in {"first", "second"}
  /\ words' = [words EXCEPT ![IF wpc[w] = "first" THEN 1 ELSE 2] = writes]
  /\ wpc' = [wpc EXCEPT ![w] = IF @ = "first" THEN "second" ELSE "end"]
  /\ UNCHANGED <<sequence, seq_owner, reader, writes>>

(* write_sequnlock: the sequence, then the spin lock. *)
SeqEnd(w) ==
  /\ wpc[w] = "end"
  /\ Bump
  /\ wpc' = [wpc EXCEPT ![w] = "unlock"]
  /\ UNCHANGED <<seq_owner, words, reader, writes>>

SeqUnlock(w) ==
  /\ wpc[w] = "unlock"
  /\ seq_owner' = NoWriter
  /\ wpc' = [wpc EXCEPT ![w] = "out"]
  /\ UNCHANGED <<sequence, words, reader, writes>>

(* read_seqbegin. *)
read_seqbegin(r) ==
  /\ reader[r].pc = "out"
  /\ reader' = [reader EXCEPT ![r].pc = "first", ![r].iv = sequence]
  /\ UNCHANGED <<sequence, seq_owner, words, wpc, writes>>

ReadWord(r) ==
  /\ reader[r].pc \in {"first", "second"}
  /\ reader' = [reader EXCEPT ![r] =
       IF @.pc = "first"
         THEN [@ EXCEPT !.pc = "second", !.first = words[1]]
         ELSE [@ EXCEPT !.pc = "retry", !.second = words[2]]]
  /\ UNCHANGED <<sequence, seq_owner, words, wpc, writes>>

(* read_seqretry: the reader is content, or starts again. *)
read_seqretry(r) ==
  /\ reader[r].pc = "retry"
  /\ reader' = [reader EXCEPT ![r] =
       IF @.iv % 2 = 1 \/ @.iv # sequence
         THEN Fresh ELSE [@ EXCEPT !.pc = "content"]]
  /\ UNCHANGED <<sequence, seq_owner, words, wpc, writes>>

ReadAgain(r) ==
  /\ reader[r].pc = "content"
  /\ reader' = [reader EXCEPT ![r] = Fresh]
  /\ UNCHANGED <<sequence, seq_owner, words, wpc, writes>>

SeqNext ==
  \/ \E w \in SeqWriters :
       SeqLockTaken(w) \/ SeqBegin(w) \/ WriteWord(w) \/ SeqEnd(w)
         \/ SeqUnlock(w)
  \/ \E r \in SeqReaders :
       read_seqbegin(r) \/ ReadWord(r) \/ read_seqretry(r) \/ ReadAgain(r)

SeqSpec == SeqInit /\ [][SeqNext]_sqvars

-----------------------------------------------------------------------------
(* read_seqretry lets a reader go only with the words of one write, the    *)
(* "consistent set of information" the header promises, also when the      *)
(* sequence goes round (with fewer than SeqModulus / 2 writes meanwhile).  *)
ReadIsConsistent ==
  \A r \in SeqReaders :
    reader[r].pc = "content" => reader[r].first = reader[r].second
=============================================================================
