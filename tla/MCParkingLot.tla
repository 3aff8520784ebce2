---------------------------- MODULE MCParkingLot ----------------------------
(***************************************************************************)
(* The instance of ParkingLot for TLC: three parkers, so that a node can   *)
(* be removed from the middle of the list, at two keys of one bucket.      *)
(***************************************************************************)
EXTENDS ParkingLot

CONSTANTS mutexAddress, otherAddress, eParked, eDrain

ParkKeys == {[address |-> mutexAddress, mask |-> {eParked}, timed |-> FALSE],
             [address |-> mutexAddress, mask |-> {eParked}, timed |-> TRUE],
             [address |-> otherAddress, mask |-> {eParked}, timed |-> TRUE]}

UnparkKeys == {[address |-> mutexAddress, mask |-> {eParked, eDrain}]}
=============================================================================
