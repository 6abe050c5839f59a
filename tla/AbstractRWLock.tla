--------------------------- MODULE AbstractRWLock ---------------------------
(***************************************************************************)
(* What a read-write lock promises: any number of readers or one writer.   *)
(***************************************************************************)
CONSTANT Threads

VARIABLES
  readers,   \* threads that hold the lock for reading
  writers    \* threads that hold it for writing

rwVars == <<readers, writers>>

RWInit == readers = {} /\ writers = {}

StartReading(t) ==
  /\ t \notin readers
  /\ writers = {}
  /\ readers' = readers \cup {t}
  /\ UNCHANGED writers

StopReading(t) ==
  /\ t \in readers
  /\ readers' = readers \ {t}
  /\ UNCHANGED writers

StartWriting(t) ==
  /\ readers = {} /\ writers = {}
  /\ writers' = {t}
  /\ UNCHANGED readers

StopWriting(t) ==
  /\ t \in writers
  /\ writers' = writers \ {t}
  /\ UNCHANGED readers

RWNext ==
  \E t \in Threads :
    StartReading(t) \/ StopReading(t) \/ StartWriting(t) \/ StopWriting(t)

RWSpec == RWInit /\ [][RWNext]_rwVars
=============================================================================
