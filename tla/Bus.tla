--------------------------------- MODULE Bus ---------------------------------
(***************************************************************************)
(* The two buses of libultra, each with a token, a manager's queue and an     *)
(* interrupt of its own: the one of the cartridge, Pi, and the serial one,    *)
(* whose module this one extends.  No thread of either uses the other.        *)
(***************************************************************************)
EXTENDS Serial

CONSTANTS Users, IoUsers, CmdCap

VARIABLES upc, ipc, cmdq, acs, evt, mgr, mb, pi, landed, reply

Pi == INSTANCE PiMgr

parallel == <<upc, ipc, cmdq, acs, evt, mgr, mb, pi, landed, reply>>

ASSUME BusAssumption == Pi!PiAssumption

(* devmgr.c, piacs.c: see PiMgr. *)
PiInv == Pi!PiInv

(* devmgr.c:17-107: see PiMgr. *)
PiServiceSpec == Pi!PiServiceSpec

(* devmgr.c:77, 102: see PiMgr. *)
DmaAnswered == Pi!DmaAnswered
=============================================================================
