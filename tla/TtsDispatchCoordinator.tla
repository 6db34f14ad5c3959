------------------------ MODULE TtsDispatchCoordinator ------------------------
(***************************************************************************)
(* The process-wide coordinator of speech dispatch                         *)
(* (src/src/services/tts_dispatch_coordinator.py): a ledger of reserved    *)
(* characters against the provider's quota, and one playback lease.  The   *)
(* operators are the critical sections of its two locks; who calls them,   *)
(* and what a caller read of the quota before, is the caller's state.      *)
(*                                                                         *)
(* A lease is released at most once however often release() is called, so  *)
(* a caller's flag "I hold the lease" stands for the _Lease object.        *)
(***************************************************************************)
EXTENDS Integers

CONSTANTS
  Limit,   \* character_limit of the subscription
  None     \* nobody

ASSUME CoordinatorAssumption == Limit \in Nat

VARIABLES
  used,      \* character_count of the subscription, kept by the provider
  reserved,  \* _reserved_characters
  owner      \* holder of _playback_lock

coordinator == <<used, reserved, owner>>

CoordinatorInit == used = 0 /\ reserved = 0 /\ owner = None

\* _valid_snapshot: a snapshot read just now is fresh; it must be within the limit.
Readable == used <= Limit

Admits(characters, seen) == characters <= Limit - seen - reserved

Reserve(characters) ==
  /\ reserved' = reserved + characters
  /\ UNCHANGED <<used, owner>>

ReturnQuota(characters) ==
  /\ reserved' = reserved - characters
  /\ UNCHANGED <<used, owner>>

\* The provider charges a request it accepts.
Charge(characters) ==
  /\ used' = used + characters
  /\ UNCHANGED <<reserved, owner>>

AcquirePlayback(party) ==
  /\ owner = None
  /\ owner' = party
  /\ UNCHANGED <<used, reserved>>

\* Mutant: the lock is left locked.
ReleasePlayback_Keeps == UNCHANGED coordinator

ReleasePlayback ==
  /\ owner' = None
  /\ UNCHANGED <<used, reserved>>

=============================================================================
