--------------------------- MODULE CommandRecords ---------------------------
(***************************************************************************)
(* The operations_idempotency_records table, as IdempotencyService keeps   *)
(* it for the commands of the external and product services.  A record     *)
(* that has expired is treated, and removed, as if it were not there.      *)
(***************************************************************************)
CONSTANT NoRecord

RecordStatus == {"IN_PROGRESS", "COMPLETED", "FAILED"}
Record(hashes, resources) ==
  [hash : hashes, status : RecordStatus, resource : resources \cup {NoRecord}]
Records(keys, hashes, resources) == [keys -> Record(hashes, resources) \cup {NoRecord}]

(* What reserve returns, or why it throws. *)
Reservation(records, key, hash) ==
  CASE records[key] = NoRecord -> "NEW"
    [] records[key] # NoRecord /\ records[key].hash # hash -> "CONFLICT"
    [] records[key] # NoRecord /\ records[key].hash = hash
         /\ records[key].status = "IN_PROGRESS" -> "IN_PROGRESS"
    [] OTHER -> "REPLAY"

Reserved(records, key, hash) ==
  [records EXCEPT ![key] = [hash |-> hash, status |-> "IN_PROGRESS", resource |-> NoRecord]]

Completed(records, key, resource) ==
  [records EXCEPT ![key].status = "COMPLETED", ![key].resource = resource]

Failed(records, key, resource) ==
  [records EXCEPT ![key].status = "FAILED", ![key].resource = resource]

(* A new record reserved and completed by one transaction. *)
Recorded(records, key, hash, resource) ==
  Completed(Reserved(records, key, hash), key, resource)

Expired(records, key) == [records EXCEPT ![key] = NoRecord]
=============================================================================
