-------------------------------- MODULE Disk --------------------------------
(***************************************************************************)
(* /dev/sda: dev_sd.c over the block transfers of ioe.c.  A call goes      *)
(* block by block through the one buffer sd->buf.  There is no lock, so    *)
(* one caller is modelled: with two at once the buffer mixes their blocks. *)
(***************************************************************************)
EXTENDS Integers, Sequences

CONSTANTS blkcnt, blksz, Values

ASSUME DiskAssumption == blkcnt \in Nat \ {0} /\ blksz \in Nat \ {0} /\ 0 \in Values

DiskBytes == 0 .. blkcnt * blksz - 1
InBlock == 0 .. blksz - 1

VARIABLES
  disk,     \* block -> its bytes
  sd_buf,   \* sd->buf
  call,     \* the locals of sd_read or sd_write, and the offset it began from
  bytes     \* history: what the calls should have made of the disk

diskVars == <<disk, sd_buf, call, bytes>>

NoCall == [op |-> "none", from |-> 0, offset |-> 0, st |-> 0, pos |-> 0, count |-> 0, data |-> <<>>]

DiskInit ==
  /\ disk = [b \in 0 .. blkcnt - 1 |-> [i \in InBlock |-> 0]]
  /\ sd_buf = [i \in InBlock |-> 0]
  /\ call = NoCall
  /\ bytes = [a \in DiskBytes |-> 0]

(* A call for `count' bytes that the disk has; a write brings them along. *)
BeginCall(op, offset, count, data) ==
  /\ call.op = "none" /\ offset + count - 1 \in DiskBytes
  /\ call' = [op |-> op, from |-> offset, offset |-> offset,
              st |-> (offset \div blksz) * blksz, pos |-> 0, count |-> count,
              data |-> data]
  /\ bytes' = IF op = "read" THEN bytes
              ELSE [a \in DiskBytes |-> IF a \in offset .. offset + count - 1
                                        THEN data[a - offset + 1] ELSE bytes[a]]
  /\ UNCHANGED <<disk, sd_buf>>

(* The bytes of the current block that the call is about. *)
Part == LET n == blksz - (call.offset - call.st)  left == call.count - call.pos
        IN IF n > left THEN left ELSE n
Block == call.st \div blksz

NextBlock(data) ==
  call' = [call EXCEPT !.pos = @ + Part, !.offset = call.st + blksz,
                       !.st = call.st + blksz, !.data = data]

ReadBlock ==
  /\ call.op = "read" /\ call.pos < call.count
  /\ sd_buf' = disk[Block]
  /\ NextBlock(call.data \o [i \in 1 .. Part |-> sd_buf'[call.offset - call.st + i - 1]])
  /\ UNCHANGED <<disk, bytes>>

MutFilled == sd_buf

(* A block that is written in part is read first. *)
Filled == IF Part < blksz THEN disk[Block] ELSE sd_buf

WriteBlock ==
  /\ call.op = "write" /\ call.pos < call.count
  /\ LET from == call.offset - call.st IN
     sd_buf' = [i \in InBlock |-> IF i \in from .. from + Part - 1
                               THEN call.data[call.pos + (i - from) + 1] ELSE Filled[i]]
  /\ disk' = [disk EXCEPT ![Block] = sd_buf']
  /\ NextBlock(call.data)
  /\ UNCHANGED bytes

EndCall ==
  /\ call.op # "none" /\ call.pos = call.count
  /\ call' = NoCall
  /\ UNCHANGED <<disk, sd_buf, bytes>>

GivenTo(op, count) == IF op = "read" THEN {<<>>} ELSE [1 .. count -> Values]

DiskNext ==
  \/ \E op \in {"read", "write"}, offset \in DiskBytes, count \in 1 .. 2 * blksz :
       \E data \in GivenTo(op, count) : BeginCall(op, offset, count, data)
  \/ ReadBlock \/ WriteBlock \/ EndCall

DiskSpec == DiskInit /\ [][DiskNext]_diskVars

(* Whatever the blocks and the pieces, the disk behaves as an array of     *)
(* bytes: a write changes the bytes it names and no others of their        *)
(* blocks, a read returns what was last written to each.                   *)
DiskIsBytes ==
  /\ call.op = "none" =>
       \A a \in DiskBytes : disk[a \div blksz][a % blksz] = bytes[a]
  /\ call.op = "read" =>
       call.data = [i \in 1 .. call.pos |-> bytes[call.from + i - 1]]
=============================================================================
