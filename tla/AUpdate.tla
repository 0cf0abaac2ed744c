------------------------------- MODULE AUpdate -------------------------------
(* iAUpdate (src/src/core/thread/iaupdate.cpp): lock-free readers over two     *)
(* copies of a data structure, one writer at a time, a swap between them.      *)
(* m_readLock is split in its two parts: `count` is COUNTER(m_readLock) and    *)
(* `which` is WHICH(m_readLock); m_semaphore is its m_avail.                   *)
(* A section is one readBegin()..readEnd() pair: a nested pair of the same     *)
(* thread (the reader side is recursive) is one more section, open together    *)
(* with the outer one.  Each section runs once, so `count` and `sem` are       *)
(* bounded by the number of sections and no bound appears in a guard.          *)
EXTENDS Integers, FiniteSets

CONSTANTS Sections,     \* the read sections of a behaviour
          Writers,      \* the threads that write
          Nobody,       \* the value of m_writeLock when it is free
          Asserts       \* IX_ASSERT aborts; it does, FALSE is the code without it

ASSUME SectionsAssumption == IsFiniteSet(Sections)
ASSUME WritersAssumption  == Nobody \notin Writers
ASSUME AssertsAssumption  == Asserts \in BOOLEAN

VARIABLES count, which, sem, writeLock, swapped,  \* the fields of iAUpdate
          spc, copy,            \* a section: its position, the copy it was given
          wpc, wcopy, ending    \* a writer: position, copy to modify, in writeEnd()?

shared == <<count, which, sem, writeLock, swapped>>
readers == <<spc, copy>>
writers == <<wpc, wcopy, ending>>
auVars == <<shared, readers, writers>>

Copies == {0, 1}
Other(c) == 1 - c

Open == {s \in Sections : spc[s] = "in"}
Aborted == \E s \in Sections : spc[s] = "abort"

AUTypeOK ==
    /\ count \in Nat /\ which \in Copies /\ sem \in Nat
    /\ writeLock \in Writers \cup {Nobody} /\ swapped \in BOOLEAN
    /\ spc \in [Sections -> {"idle", "in", "post", "done", "abort"}]
    /\ copy \in [Sections -> Copies]
    /\ wpc \in [Writers -> {"idle", "write", "load", "acquire", "cas"}]
    /\ wcopy \in [Writers -> Copies]
    /\ ending \in [Writers -> BOOLEAN]

AUInit ==
    /\ count = 0 /\ which = 0 /\ sem = 0
    /\ writeLock = Nobody /\ swapped = FALSE
    /\ spc = [s \in Sections |-> "idle"]
    /\ copy = [s \in Sections |-> 0]
    /\ wpc = [w \in Writers |-> "idle"]
    /\ wcopy = [w \in Writers |-> 0]
    /\ ending = [w \in Writers |-> FALSE]

(* ++m_readLock; the copy to look at is WHICH of the result. *)
ReadBegin(s) ==
    /\ spc[s] = "idle"
    /\ count' = count + 1
    /\ spc' = [spc EXCEPT ![s] = "in"]
    /\ copy' = [copy EXCEPT ![s] = which]
    /\ UNCHANGED <<which, sem, writeLock, swapped, writers>>

(* --m_readLock and IX_ASSERT(COUNTER(n) > 0) on what it returns, the count     *)
(* after the step: the section that leaves last aborts the process ...         *)
ReadEnd(s) ==
    /\ spc[s] = "in"
    /\ count' = count - 1
    /\ spc' = [spc EXCEPT ![s] = IF Asserts /\ count' = 0 THEN "abort" ELSE "post"]
    /\ UNCHANGED <<which, sem, writeLock, swapped, copy, writers>>

(* ... the others post: m_semaphore.release(), a second step. *)
Post(s) ==
    /\ spc[s] = "post"
    /\ sem' = sem + 1
    /\ spc' = [spc EXCEPT ![s] = "done"]
    /\ UNCHANGED <<count, which, writeLock, swapped, copy, writers>>

WriteBegin(w) ==
    /\ wpc[w] = "idle" /\ writeLock = Nobody
    /\ writeLock' = w /\ swapped' = FALSE
    /\ wpc' = [wpc EXCEPT ![w] = "write"]
    /\ wcopy' = [wcopy EXCEPT ![w] = Other(which)]
    /\ UNCHANGED <<count, which, sem, ending, readers>>

WriteSwap(w) ==
    /\ wpc[w] = "write"
    /\ wpc' = [wpc EXCEPT ![w] = "load"]
    /\ UNCHANGED <<shared, wcopy, ending, readers>>

(* The loop of writeSwap(): read m_readLock ... *)
Load(w) ==
    /\ wpc[w] = "load"
    /\ wpc' = [wpc EXCEPT ![w] = IF count > 0 THEN "acquire" ELSE "cas"]
    /\ UNCHANGED <<shared, wcopy, ending, readers>>

(* ... wait for a reader that leaves ... *)
Acquire(w) ==
    /\ wpc[w] = "acquire" /\ sem > 0
    /\ sem' = sem - 1
    /\ wpc' = [wpc EXCEPT ![w] = "load"]
    /\ UNCHANGED <<count, which, writeLock, swapped, wcopy, ending, readers>>

(* ... or flip the top bit if the word still is what was read.  Only the owner *)
(* of m_writeLock changes the bit, so the comparison is one of the count.      *)
CasFails(w) ==
    /\ wpc[w] = "cas" /\ count # 0
    /\ wpc' = [wpc EXCEPT ![w] = "load"]
    /\ UNCHANGED <<shared, wcopy, ending, readers>>

CasStores(w) ==         \* mutant: stores the flipped word without comparing
    /\ wpc[w] = "cas"
    /\ which' = Other(which)
    /\ swapped' = TRUE
    /\ wcopy' = [wcopy EXCEPT ![w] = which]
    /\ writeLock' = IF ending[w] THEN Nobody ELSE writeLock
    /\ wpc' = [wpc EXCEPT ![w] = IF ending[w] THEN "idle" ELSE "write"]
    /\ ending' = [ending EXCEPT ![w] = FALSE]
    /\ UNCHANGED <<count, sem, readers>>

CasSwaps(w) ==
    /\ wpc[w] = "cas" /\ count = 0
    /\ which' = Other(which)
    /\ swapped' = TRUE
    /\ wcopy' = [wcopy EXCEPT ![w] = which]
    /\ writeLock' = IF ending[w] THEN Nobody ELSE writeLock
    /\ wpc' = [wpc EXCEPT ![w] = IF ending[w] THEN "idle" ELSE "write"]
    /\ ending' = [ending EXCEPT ![w] = FALSE]
    /\ UNCHANGED <<count, sem, readers>>

(* writeEnd(): unlock, after a writeSwap() of its own when there was none. *)
WriteEnd(w) ==
    /\ wpc[w] = "write" /\ swapped
    /\ writeLock' = Nobody
    /\ wpc' = [wpc EXCEPT ![w] = "idle"]
    /\ UNCHANGED <<count, which, sem, swapped, wcopy, ending, readers>>

WriteEndSwaps(w) ==
    /\ wpc[w] = "write" /\ ~swapped
    /\ wpc' = [wpc EXCEPT ![w] = "load"]
    /\ ending' = [ending EXCEPT ![w] = TRUE]
    /\ UNCHANGED <<shared, wcopy, readers>>

SectionStep(s) == ReadBegin(s) \/ ReadEnd(s) \/ Post(s)
SwapLoop(w) == Load(w) \/ Acquire(w) \/ CasFails(w) \/ CasSwaps(w)
WriterStep(w) ==
    WriteBegin(w) \/ WriteSwap(w) \/ SwapLoop(w) \/ WriteEnd(w) \/ WriteEndSwaps(w)

AUNext ==
    /\ ~Aborted
    /\ (\E s \in Sections : SectionStep(s)) \/ (\E w \in Writers : WriterStep(w))

(* Threads that are inside an operation are scheduled; nobody has to start one. *)
AUFairness ==
    /\ \A s \in Sections : WF_auVars(~Aborted /\ (ReadEnd(s) \/ Post(s)))
    /\ \A w \in Writers : WF_auVars(~Aborted /\ SwapLoop(w))

AUSafe == AUInit /\ [][AUNext]_auVars
AUSpec == AUSafe /\ AUFairness
------------------------------------------------------------------------------
(* iaupdate.h: a reader need not lock the copy it was given, because the       *)
(* writer between writeBegin()/writeSwap() and the next call modifies the      *)
(* other one.                                                                  *)
Exclusion ==
    \A s \in Open, w \in Writers : wpc[w] = "write" => copy[s] # wcopy[w]

(* Every open section looks at the copy the top bit names: sections that are   *)
(* open together, nested ones included, never disagree about the copy.         *)
OpenReadCurrent == \A s \in Open : copy[s] = which

(* iaupdate.h on writeSwap(): "Each time called this will return the opposite  *)
(* of the previous writeBegin() / writeSwap() call".                           *)
SwapReturnsOpposite ==
    \A w \in Writers : wpc[w] \notin {"idle", "write"} /\ wpc'[w] = "write"
        => wcopy'[w] = Other(wcopy[w])
SwapAlternates == [][SwapReturnsOpposite]_auVars
==============================================================================
