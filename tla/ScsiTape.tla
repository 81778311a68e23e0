------------------------------ MODULE ScsiTape ------------------------------
(***************************************************************************)
(* What the tape drivers stand on, and no part of them: a drive with its   *)
(* cartridge, the paths that lead to it and the other initiators, as the   *)
(* SCSI commands of the drivers show it.  One record s holds the drive,    *)
(* the private data of the driver and the position the caller keeps, since *)
(* one call of a driver is many commands.  A function of a driver is an    *)
(* operator from s to the set of its outcomes [s, ret].                    *)
(*                                                                         *)
(* A record on tape is a filemark (0) or a data block: a number from 1 to  *)
(* 9, and with it the key it is encrypted with, in the tens.               *)
(* A return code is a string: "GOOD", "COUNT" for a positive length, or    *)
(* the name of an error, which in the code is a negative number.           *)
(***************************************************************************)
EXTENDS Naturals, Sequences, FiniteSets

CONSTANTS
  Paths,      \* paths of this host to the drive, numbers in the order of their adapters
  Cap,        \* bound: records of a partition
  Early,      \* records of a partition behind the early warning
  ProgEarly   \* ... and behind the programmable early warning

ASSUME ScsiTapeAssumption ==
  /\ Paths \subseteq Nat \ {0} /\ Cap \in Nat /\ Early \in 0 .. Cap /\ ProgEarly \in Early .. Cap

(* What may go wrong in one command. *)
AllEvents == {"cut", "cut_late", "nomem", "nomem_late", "nomem_read", "reset", "hardware", "medium",
              "mismatch", "whole", "corrupt", "requeue"}

FM == 0
NoPath == 0
OtherHost == 99      \* the reservation of another initiator
Partitions == {0, 1}
SamePartition == 2   \* LOCATE without the flag to change the partition
BlockMax == Cap + 1  \* TAPE_BLOCK_MAX

Encrypted(d, key) == 10 * key + d
KeyOf(rec) == rec \div 10

At(p, b) == [p |-> p, b |-> b]

Drive == [tape : [Partitions -> Seq(Nat)], at : [p : Partitions, b : 0 .. Cap],
          medium : {"out", "in", "ready"}, locked : BOOLEAN, worm : BOOLEAN, key : Nat,
          lbp : BOOLEAN, aom : BOOLEAN, permit : BOOLEAN,
          noeod : SUBSET Partitions, cap : 0 .. Cap, events : SUBSET AllEvents, faults : Nat, reg : SUBSET Paths, res : {NoPath, OtherHost} \cup Paths,
          ua : {"none", "POR_OR_BUS_RESET", "RESERVATION_PREEMPTED", "MEDIUM_MAY_BE_CHANGED"},
          live : SUBSET Paths, was_reset : BOOLEAN, blind : BOOLEAN, unheard : BOOLEAN]

-----------------------------------------------------------------------------
(* Outcomes of a call.                                                     *)

Out(s, ret) == {[s |-> s, ret |-> ret]}

Failed(ret) == ret \notin {"GOOD", "COUNT"}

Then(outs, F(_)) == UNION {F(o) : o \in outs}

OnGood(outs, F(_)) == UNION {IF o.ret = "GOOD" THEN F(o.s) ELSE {o} : o \in outs}

OnSuccess(outs, F(_)) == UNION {IF Failed(o.ret) THEN {o} ELSE F(o.s) : o \in outs}

(* The next call is made whatever the result of this one. *)
Anyway(outs, F(_)) == UNION {F(o.s) : o \in outs}

Return(outs, ret) == {[o EXCEPT !.ret = ret] : o \in outs}

(* if (ret_ep < 0) ret = ret_ep *)
Override(outs, ret) == {[o EXCEPT !.ret = IF Failed(@) THEN @ ELSE ret] : o \in outs}

(* A transfer of data returns its length. *)
Counted(outs) == {[o EXCEPT !.ret = IF @ = "GOOD" THEN "COUNT" ELSE @] : o \in outs}

-----------------------------------------------------------------------------
(* The drive.                                                              *)

Cmd(op, a, b) == [op |-> op, a |-> a, b |-> b]
Plain(op) == Cmd(op, 0, 0)

UnitAttentions == {"POR_OR_BUS_RESET", "RESERVATION_PREEMPTED", "MEDIUM_MAY_BE_CHANGED"}

Unattended == {"INQUIRY", "REQUEST_SENSE"}
Unreserved == Unattended \cup {"PRI", "REGISTER", "PREEMPT", "RESERVE", "RELEASE", "RSOC", "DEVICE_ID"}
OnMedium == {"WRITE", "WRITE_FM", "READ", "LOCATE", "SPACE", "REWIND", "ERASE", "READ_POSITION",
             "FORMAT", "SET_CAPACITY", "TUR", "READ_ATTRIBUTE", "WRITE_ATTRIBUTE", "ALLOW_OVERWRITE"}

Here(s) == s.tape[s.at.p]

(* How near the end of the partition the position is: 2 early warning, 1 programmable, 0. *)
Warning(s) == IF s.at.b + Early >= s.cap THEN 2 ELSE IF s.at.b + ProgEarly >= s.cap THEN 1 ELSE 0

(* The records from the position on are gone, and these are there. *)
Put(s, recs) ==
  [s EXCEPT !.tape[s.at.p] = SubSeq(@, 1, s.at.b) \o recs, !.at.b = @ + Len(recs),
            !.permit = FALSE, !.noeod = @ \ {s.at.p}]

Filemarks(n) == [i \in 1 .. n |-> FM]

(* A drive in append-only mode, or with a WORM cartridge, overwrites nothing on its own. *)
Protected(s) == s.at.b < Len(Here(s)) /\ (s.worm \/ (s.aom /\ ~s.permit))

WriteStatus(s, t) ==
  CASE Warning(t) = 2 -> "EARLY_WARNING"
    [] Warning(t) = 1 /\ Warning(s) = 0 -> "PROG_EARLY_WARNING"
    [] OTHER -> "GOOD"

Written(s, recs) ==
  IF recs = << >> THEN Out(s, "GOOD")
  ELSE IF Protected(s) THEN Out(s, "DATA_PROTECT")
  ELSE IF s.at.b + Len(recs) > s.cap THEN Out(s, "OVERFLOW")
  ELSE Out(Put(s, recs), WriteStatus(s, Put(s, recs)))

(* What the drive says behind the last record: the end of data, when it finds one. *)
NoMore(s, p) == IF p \in s.noeod THEN "READ_PERM" ELSE "EOD_DETECTED"

ReadRecord(s) ==
  IF s.at.b = Len(Here(s)) THEN Out(s, NoMore(s, s.at.p))
  ELSE LET rec == Here(s)[s.at.b + 1]
       IN  IF KeyOf(rec) \notin {0, s.key} THEN Out(s, "KEY_REQUIRED") ELSE Out([s EXCEPT !.at.b = @ + 1, !.got = rec], IF rec = FM THEN "FILEMARK_DETECTED" ELSE "GOOD")

Moved(s, p, b) == [s EXCEPT !.at = At(p, b), !.permit = FALSE]

Located(s, part, b) ==
  LET p == IF part = SamePartition THEN s.at.p ELSE part
  IN  IF b > Len(s.tape[p]) THEN Out(Moved(s, p, Len(s.tape[p])), NoMore(s, p)) ELSE Out(Moved(s, p, b), "GOOD")

FilemarksFrom(s, lo, hi) == {i \in lo .. hi : Here(s)[i] = FM}

(* n filemarks forward, to behind the last of them, or to the end of data. *)
SpacedForward(s, n) ==
  LET ahead == FilemarksFrom(s, s.at.b + 1, Len(Here(s)))
      hit   == {i \in ahead : Cardinality({j \in ahead : j <= i}) = n}
  IN  IF hit = {} THEN Out(Moved(s, s.at.p, Len(Here(s))), NoMore(s, s.at.p))
      ELSE {[s |-> Moved(s, s.at.p, i), ret |-> "GOOD"] : i \in hit}

(* n filemarks back, to before the last of them, or to the beginning of the partition. *)
SpacedBack(s, n) ==
  LET behind == FilemarksFrom(s, 1, s.at.b)
      hit    == {i \in behind : Cardinality({j \in behind : j >= i}) = n}
  IN  IF hit = {} THEN Out(Moved(s, s.at.p, 0), "BOP_DETECTED")
      ELSE {[s |-> Moved(s, s.at.p, i - 1), ret |-> "GOOD"] : i \in hit}

(* The end of data, n filemarks, or one record back. *)
Spaced(s, type, n) ==
  CASE type = "EOD"  -> Out(Moved(s, s.at.p, Len(Here(s))), "GOOD")
    [] type = "FM_F" -> SpacedForward(s, n)
    [] type = "FM_B" -> SpacedBack(s, n)
    [] type = "B"    -> IF s.at.b = 0 THEN Out(s, "BOP_DETECTED")
                        ELSE Out(Moved(s, s.at.p, s.at.b - 1),
                                 IF Here(s)[s.at.b] = FM THEN "FILEMARK_DETECTED" ELSE "GOOD")

Reserve(s) ==
  IF s.fd \in s.reg /\ s.res \in {NoPath, s.fd} THEN Out([s EXCEPT !.res = s.fd], "GOOD")
  ELSE Out(s, "RESERVATION_CONFLICT")

(* PREEMPT AND ABORT with the key of this host as the key to preempt. *)
Preempt(s) ==
  IF s.fd \notin s.reg THEN Out(s, "RESERVATION_CONFLICT")
  ELSE Out([s EXCEPT !.res = IF @ \in Paths THEN s.fd ELSE @, !.reg = {s.fd}], "GOOD")

Unregistered(s) ==
  [s EXCEPT !.reg = @ \ {s.fd}, !.res = IF @ = s.fd THEN NoPath ELSE @]

Apply(s, c) ==
  CASE c.op = "WRITE"        -> Written(s, <<Encrypted(c.a, s.key)>>)
    [] c.op = "WRITE_FM"     -> Written(s, Filemarks(c.a))
    [] c.op = "READ"         -> ReadRecord(s)
    [] c.op = "LOCATE"       -> Located(s, c.a, c.b)
    [] c.op = "SPACE"        -> Spaced(s, c.a, c.b)
    [] c.op = "REWIND"       -> Out(Moved(s, s.at.p, 0), "GOOD")
    [] c.op = "ERASE"        -> Out(Put(s, << >>), "GOOD")
    [] c.op = "FORMAT"       -> Out([s EXCEPT !.tape = [p \in Partitions |-> << >>], !.at = At(0, 0),
                                             !.noeod = {}], "GOOD")
    [] c.op = "SET_CAPACITY" -> Out([s EXCEPT !.at = At(0, 0)], "GOOD")
    [] c.op = "LOAD"         -> IF s.medium = "out" THEN Out(s, "NO_MEDIUM")
                                ELSE Out([s EXCEPT !.medium = "ready", !.at = At(0, 0)], "GOOD")
    [] c.op = "UNLOAD"       -> IF s.locked THEN Out(s, "MEDIA_REMOVAL_PREV")
                                ELSE Out([s EXCEPT !.medium = IF @ = "ready" THEN "in" ELSE @,
                                                   !.at = At(0, 0)], "GOOD")
    [] c.op = "ALLOW_OVERWRITE" -> Out([s EXCEPT !.permit = TRUE], "GOOD")
    [] c.op = "WRITE_ATTRIBUTE" -> Out([s EXCEPT !.cm[c.a] = c.b], "GOOD")
    [] c.op = "SET_AOM"      -> Out([s EXCEPT !.aom = c.a], "GOOD")
    [] c.op = "PREVENT"      -> Out([s EXCEPT !.locked = c.a], "GOOD")
    [] c.op = "SET_KEY"      -> Out([s EXCEPT !.key = c.a], "GOOD")
    [] c.op = "SET_LBP"      -> Out([s EXCEPT !.lbp = c.a], "GOOD")
    [] c.op = "REGISTER"     -> Out(IF c.a THEN [s EXCEPT !.reg = @ \cup {s.fd}] ELSE Unregistered(s), "GOOD")
    [] c.op = "RESERVE"      -> Reserve(s)
    [] c.op = "RELEASE"      -> Out([s EXCEPT !.res = IF @ = s.fd THEN NoPath ELSE @], "GOOD")
    [] c.op = "PREEMPT"      -> Preempt(s)
    [] OTHER                 -> Out(s, "GOOD")

(* A pending unit attention answers in place of the command. *)
Exec(s, c) ==
  IF s.ua # "none" /\ c.op \notin Unattended THEN Out([s EXCEPT !.ua = "none"], s.ua)
  ELSE IF s.res \notin {NoPath, s.fd} /\ c.op \notin Unreserved THEN Out(s, "RESERVATION_CONFLICT")
  ELSE IF s.medium = "out" /\ c.op \in OnMedium THEN Out(s, "NO_MEDIUM")
  ELSE IF s.medium = "in" /\ c.op \in OnMedium THEN Out(s, "NEED_INITIALIZE")
  ELSE Apply(s, c)

-----------------------------------------------------------------------------
(* The way to the drive.                                                   *)

PowerCycled(s) ==
  [s EXCEPT !.at = At(0, 0), !.locked = FALSE, !.key = 0, !.lbp = FALSE, !.permit = FALSE, !.reg = {}, !.res = NoPath,
            !.ua = "POR_OR_BUS_RESET", !.was_reset = TRUE]

(* Power lost in a write: the record is not there, and neither is an end of data behind the last. *)
Torn(s) ==
  IF s.medium = "ready" /\ ~Protected(s) THEN [Put(s, << >>) EXCEPT !.noeod = @ \cup {s.at.p}] ELSE s

(* The errors of the medium; a LOCATE first writes what is in the buffer of the drive. *)
MediumErrors(op) ==
  CASE op \in {"WRITE", "WRITE_FM"} -> {"WRITE_PERM"}
    [] op \in {"READ", "SPACE"}     -> {"READ_PERM"}
    [] op = "LOCATE"                -> {"READ_PERM", "WRITE_PERM"}
    [] OTHER                        -> {}

(* An event in place of the answers of the drive, ran. *)
Event(e, s, c, ran) ==
  CASE e = "cut"        -> Out([s EXCEPT !.live = @ \ {s.fd}], "lost")
    [] e = "cut_late"   -> Return(Anyway(ran, LAMBDA t : Out([t EXCEPT !.live = @ \ {s.fd}], "")), "lost")
    [] e = "nomem" /\ s.drv = "sg" /\ c.op \in {"READ", "WRITE"} -> Out(s, "nomem")
    [] \/ e = "nomem_late" /\ s.drv = "sg" /\ c.op = "WRITE"
       \/ e = "nomem_read" /\ s.drv = "sg" /\ c.op = "READ"  -> Return(ran, "nomem")
    [] e = "reset"      -> Out(PowerCycled(IF c.op = "WRITE" THEN Torn(s) ELSE s), "lost")
    [] e = "hardware"   -> Out([s EXCEPT !.blind = @ \/ c.op = "READ_POSITION"], "HARDWARE_ERROR")
    [] e = "medium"     -> UNION {Out(s, ret) : ret \in MediumErrors(c.op)}
    [] e = "requeue" /\ s.drv = "sg" -> Out(s, "requeue")
    [] \/ e \in {"mismatch", "corrupt"} /\ c.op = "READ"
       \/ e = "whole" /\ c.op = "READ" /\ s.at.b = 0 /\ s.use_sili ->
         {[o EXCEPT !.ret = IF @ = "GOOD" THEN e ELSE @] : o \in ran}
    [] OTHER -> {}

(* The commands of a driver: what the drive says, or one of the events. *)
Transport(s, c) ==
  LET ran == Exec(s, c)
      Hit == {[o EXCEPT !.s.faults = @ - 1] : o \in UNION {Event(e, s, c, ran) : e \in s.events}}
  IN  IF s.fd \notin s.live THEN Out(s, "lost") ELSE IF s.faults = 0 THEN ran ELSE ran \cup Hit

=============================================================================
