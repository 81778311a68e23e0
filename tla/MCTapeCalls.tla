---------------------------- MODULE MCTapeCalls ----------------------------
(* The scenes for TLC: what each driver is meant to withstand, one trouble at a time. *)
EXTENDS TapeCalls, Backends

Scene(drv, vendor, calls, part, events) ==
  [drv |-> drv, vendor |-> vendor, calls |-> calls, part |-> part, append_only |-> part = 0, events |-> events,
   faults |-> IF events = {} THEN 0 ELSE 1, cap |-> CASE calls \in {"tools", "keys"} -> 8 [] calls = "locks" -> 5 [] OTHER -> 2,
   attrs |-> CASE calls \in {"tools", "attributes"} -> AllAttrs [] calls = "locks" -> {"LOCKED_MAM"} [] OTHER -> {}]

(* Blocks and filemarks. *)
RecordScenes ==
  {Scene("sg", "IBM", "records", 1, {"cut", "cut_late", "reset", "medium"}),
   Scene("sg", "IBM", "records", 1, {"nomem", "nomem_late", "mismatch", "whole", "corrupt", "requeue"}),
   Scene("sg", "HP", "records", 0, {}),
   Scene("iokit", "IBM", "records", 1, {"cut_late", "medium", "mismatch", "whole", "corrupt"}),
   Scene("cam", "IBM", "records", 1, {"medium", "whole", "corrupt"})}

(* Formats, keys, the recovery of the end of data, the attributes of the cartridge and forced errors. *)
ToolScenes ==
  {Scene(drv, "IBM", "tools", 1, {"medium", "hardware"}) : drv \in {"iokit", "cam"}}
    \cup {Scene("sg", "IBM", "tools", 1, {"cut", "reset", "medium", "hardware"})}
    \cup {Scene(drv, "HP", "keys", 1, {}) : drv \in {"sg", "iokit", "scsipi", "cam"}}
    \cup {Scene(drv, "IBM", "lost_eod", 1, {"cut", "medium", "hardware"}) : drv \in {"iokit", "cam"}}
    \cup {Scene("sg", "IBM", "lost_eod", 1, {"cut", "reset", "medium", "hardware"})}
    \cup {Scene(drv, "IBM", "attributes", 1, {}) : drv \in {"iokit", "cam"}}
    \cup {Scene("sg", "IBM", "attributes", 1, {"hardware"})}
    \cup {Scene("sg", "IBM", "locks", 1, {"medium", "reset"})}
    \cup {Scene(drv, "IBM", "forced", 1, {}) : drv \in {"sg", "iokit"}}

MCScenes == RecordScenes \cup ToolScenes

(* A drive behind the driver of FreeBSD, and nothing goes wrong. *)
FreeBsd == {Scene("cam", "IBM", "records", 1, {})}
=============================================================================
