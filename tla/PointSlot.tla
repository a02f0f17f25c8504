----------------------------- MODULE PointSlot -----------------------------
(***************************************************************************)
(* The seqlock of one shared-memory point slot                             *)
(* (crates/aether-dataplane/src/core/slot.rs).  A slot holds three words,  *)
(* value_bits, raw_bits and timestamp, and a sequence counter seq of a     *)
(* fixed width.  set() makes seq odd, stores the three words and makes seq *)
(* even again; try_load_consistent() loads seq, the three words and seq    *)
(* again, and returns the words only when both loads agree on an even      *)
(* value.                                                                  *)
(*                                                                         *)
(* The three stores are Relaxed between a Release fence and a Release RMW, *)
(* and the three loads are Relaxed between two Acquire fences: their order *)
(* inside the fences is free, and is a choice here.  A word is abstracted  *)
(* to the number of the set() call that stored it, 0 for the NaN sentinel  *)
(* of init_unwritten().                                                    *)
(***************************************************************************)
EXTENDS Naturals

CONSTANTS SlotWriters,      \* threads, or process incarnations, that call set()
          SlotReaders,      \* threads that call try_load_consistent()
          SlotSeqMod,       \* the range of seq, 2^32 in the code
          MaxSets       \* bound on the number of set() calls

ASSUME SeqModAssumption == SlotSeqMod \in Nat /\ SlotSeqMod > 0 /\ SlotSeqMod % 2 = 0

ASSUME MaxSetsAssumption == MaxSets \in Nat

Words == {"value", "raw", "timestamp"}

VARIABLES seq,          \* the sequence counter
          word,         \* word[f]: the set() call whose data f holds
          begun,        \* number of set() calls begun so far (ghost)
          setting,      \* setting[w]: the call w is executing, 0 for none
          unstored,     \* unstored[w]: the words that call has yet to store
          phase,        \* phase[r]: where r is in try_load_consistent()
          seq1,         \* seq1[r]: the first load of seq
          got,          \* got[r]: the words r loaded
          unread,       \* unread[r]: the words r has yet to load
          start,        \* start[r]: begun when r loaded seq1 (ghost)
          finish        \* finish[r]: begun when r loaded seq2 (ghost)

slotVars == <<seq, word>>
slotWriterVars == <<begun, setting, unstored>>
slotReaderVars == <<phase, seq1, got, unread, start, finish>>
seqlockVars == <<seq, word, begun, setting, unstored, phase, seq1, got, unread, start, finish>>

Phases == {"idle", "words", "seq2", "some", "none"}

SlotTypeOK == /\ seq \in 0 .. SlotSeqMod - 1
          /\ word \in [Words -> Nat]
          /\ begun \in Nat
          /\ setting \in [SlotWriters -> Nat]
          /\ unstored \in [SlotWriters -> SUBSET Words]
          /\ phase \in [SlotReaders -> Phases]
          /\ seq1 \in [SlotReaders -> 0 .. SlotSeqMod - 1]
          /\ got \in [SlotReaders -> [Words -> Nat]]
          /\ unread \in [SlotReaders -> SUBSET Words]
          /\ start \in [SlotReaders -> Nat]
          /\ finish \in [SlotReaders -> Nat]

\* PointSlot::new() and init_unwritten(): no data, an even counter
SlotInit == /\ seq = 0
        /\ word = [f \in Words |-> 0]
        /\ begun = 0
        /\ setting = [w \in SlotWriters |-> 0]
        /\ unstored = [w \in SlotWriters |-> {}]
        /\ phase = [r \in SlotReaders |-> "idle"]
        /\ seq1 = [r \in SlotReaders |-> 0]
        /\ got = [r \in SlotReaders |-> [f \in Words |-> 0]]
        /\ unread = [r \in SlotReaders |-> {}]
        /\ start = [r \in SlotReaders |-> 0]
        /\ finish = [r \in SlotReaders |-> 0]

\* Mutant of Bump: a counter that does not wrap at its width
BumpNoWrap(s) == s + 1

\* seq.fetch_add(1) wraps
Bump(s) == IF s + 1 = SlotSeqMod THEN 0 ELSE s + 1

---------------------------------------------------------------------------
(* set(): one step for each access to shared memory *)

BeginSet(w) == /\ setting[w] = 0
               /\ begun < MaxSets
               /\ seq' = Bump(seq)
               /\ begun' = begun + 1
               /\ setting' = [setting EXCEPT ![w] = begun + 1]
               /\ unstored' = [unstored EXCEPT ![w] = Words]
               /\ UNCHANGED <<word, slotReaderVars>>

StoreWord(w) == /\ setting[w] # 0
                /\ \E f \in unstored[w] :
                     /\ word' = [word EXCEPT ![f] = setting[w]]
                     /\ unstored' = [unstored EXCEPT ![w] = @ \ {f}]
                /\ UNCHANGED <<seq, begun, setting, slotReaderVars>>

EndSet(w) == /\ setting[w] # 0
             /\ unstored[w] = {}
             /\ seq' = Bump(seq)
             /\ setting' = [setting EXCEPT ![w] = 0]
             /\ UNCHANGED <<word, begun, unstored, slotReaderVars>>

\* The process that executes set() dies.  The mapping outlives it: seq and
\* the words keep what was stored, and SlotWriter::open_existing() of the
\* next incarnation maps them as they are.
SlotCrash(w) == /\ setting[w] # 0
            /\ setting' = [setting EXCEPT ![w] = 0]
            /\ unstored' = [unstored EXCEPT ![w] = {}]
            /\ UNCHANGED <<slotVars, begun, slotReaderVars>>

---------------------------------------------------------------------------
(* try_load_consistent(); load_consistent() calls it again after a None *)

LoadSeq1(r) == /\ phase[r] \in {"idle", "some", "none"}
               /\ seq1' = [seq1 EXCEPT ![r] = seq]
               /\ unread' = [unread EXCEPT ![r] = Words]
               /\ start' = [start EXCEPT ![r] = begun]
               /\ phase' = [phase EXCEPT ![r] = IF seq % 2 = 1 THEN "none" ELSE "words"]
               /\ UNCHANGED <<slotVars, slotWriterVars, got, finish>>

LoadWord(r) == /\ phase[r] = "words"
               /\ \E f \in unread[r] :
                    /\ got' = [got EXCEPT ![r] = [@ EXCEPT ![f] = word[f]]]
                    /\ unread' = [unread EXCEPT ![r] = @ \ {f}]
                    /\ phase' = [phase EXCEPT ![r] = IF unread[r] = {f} THEN "seq2" ELSE @]
               /\ UNCHANGED <<slotVars, slotWriterVars, seq1, start, finish>>

\* Mutant of LoadSeq2: only the parity of the second load is looked at
LoadSeq2ParityOnly(r) == /\ phase[r] = "seq2"
                         /\ phase' = [phase EXCEPT ![r] = IF seq % 2 = 0 THEN "some" ELSE "none"]
                         /\ finish' = [finish EXCEPT ![r] = begun]
                         /\ UNCHANGED <<slotVars, slotWriterVars, seq1, got, unread, start>>

LoadSeq2(r) == /\ phase[r] = "seq2"
               /\ phase' = [phase EXCEPT ![r] = IF seq = seq1[r] THEN "some" ELSE "none"]
               /\ finish' = [finish EXCEPT ![r] = begun]
               /\ UNCHANGED <<slotVars, slotWriterVars, seq1, got, unread, start>>

---------------------------------------------------------------------------
Set(w) == BeginSet(w) \/ StoreWord(w) \/ EndSet(w)

Load(r) == LoadSeq1(r) \/ LoadWord(r) \/ LoadSeq2(r)

SlotNext == (\E w \in SlotWriters : Set(w)) \/ (\E r \in SlotReaders : Load(r))

SlotSpec == SlotInit /\ [][SlotNext]_seqlockVars

\* A slot whose writing process may die and be restarted
NextRestart == SlotNext \/ \E w \in SlotWriters : SlotCrash(w)

SpecRestart == SlotInit /\ [][NextRestart]_seqlockVars

\* One thread at a time calls set() on a slot ("io owns T/S, automation owns
\* C/A"), which the code states and does not enforce
SingleWriter == \A v, w \in SlotWriters : v = w

(***************************************************************************)
(* What try_load_consistent returns is the data of one set() call, the     *)
(* last one completed before the read began; unless the counter went round *)
(* its whole range during the read, which takes SlotSeqMod / 2 calls of set(). *)
(***************************************************************************)
ConsistentRead ==
    \A r \in SlotReaders :
        phase[r] = "some" /\ 2 * (finish[r] - start[r]) < SlotSeqMod
            => \A f \in Words : got[r][f] = start[r]

(***************************************************************************)
(* A read that returns data returns words of one and the same set() call:  *)
(* "it never returns torn data" (docs/concepts/shared-memory.md), which    *)
(* the documentation says of load_consistent().                            *)
(***************************************************************************)
NeverTorn == \A r \in SlotReaders :
                phase[r] = "some" => \A f, g \in Words : got[r][f] = got[r][g]
=============================================================================
