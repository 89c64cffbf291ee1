------------------------------ MODULE SpiFlash ------------------------------
(***************************************************************************)
(* Programming an SPI flash through the pod's SPI master (spi.py, and      *)
(* open_spi and spi_flash of client.py): hold the target in reset, arm the *)
(* master, erase sector by sector, write chunk by chunk, and undo both     *)
(* whatever happens.  The chip is an array of cells; a write can only      *)
(* clear an erased cell.  Every command may fail before the pod acted on   *)
(* it or after.                                                            *)
(***************************************************************************)
EXTENDS Integers, FiniteSets

CONSTANTS
    ChipSize,   \* cells of the chip
    Sector,     \* cells of a sector, the least that can be erased
    SpiChunk,      \* cells that one write command takes
    EraseStep   \* cells that one erase command is asked for

ASSUME SpiAssumption ==
    /\ {ChipSize, Sector, SpiChunk, EraseStep} \subseteq Nat \ {0}
    /\ ChipSize % Sector = 0

VARIABLES
    before,     \* what the chip holds at first
    cells,      \* what each cell holds: "old", "erased", "image" or "mixed"
    armed,      \* the pod's SPI master
    inReset,    \* the target's reset line
    job,        \* the call's arguments
    spiPc,      \* where the call is
    erasePos,   \* flash_erase's pos
    erased,     \* the cells that the replies so far said were erased
    off,        \* flash_write's off
    spiResult,  \* "none", "running", "programmed" or "raised"
    missed      \* history: "hold" and "open", the first set_reset and spi_start whose reply was
                \* lost; "close" and "release", spi_stop and the last set_reset when they failed

spiVars == <<before, cells, armed, inReset, job, spiPc, erasePos, erased, off, spiResult, missed>>

Cells == 0 .. ChipSize - 1
Jobs == {j \in [at : Cells, len : 1 .. ChipSize, erase : BOOLEAN, verify : BOOLEAN, hold : BOOLEAN]
           : j.at + j.len <= ChipSize}
Covered == job.at .. job.at + job.len - 1
SectorOf(c) == {d \in Cells : d \div Sector = c \div Sector}
Sectors(range) == UNION {SectorOf(c) : c \in range}
Least(a, b) == IF a < b THEN a ELSE b
Most(a, b) == IF a > b THEN a ELSE b

SpiInit ==
    /\ before \in {"old", "erased"} /\ cells = [c \in Cells |-> before]
    /\ armed = FALSE /\ inReset = FALSE
    /\ job \in Jobs
    /\ spiPc = "call" /\ erasePos = job.at /\ erased = {} /\ off = 0
    /\ spiResult = "running" /\ missed = {}

-----------------------------------------------------------------------------
(* A command that fails sends the call to its finally clauses; `did` says whether  *)
(* the pod had acted.                                                              *)

Missed(command, when) == missed' = IF when THEN missed \cup {command} ELSE missed

(* spi_flash: the reset line is taken before the try, so when this fails nothing   *)
(* gives it back.                                                                  *)
HoldReset(did, ok) ==
    /\ spiPc = "call" /\ (ok => did)
    /\ IF job.hold THEN inReset' = (did \/ inReset) /\ Missed("hold", did /\ ~ok)
       ELSE ok /\ UNCHANGED <<inReset, missed>>
    /\ spiPc' = IF ok THEN "open" ELSE "end"
    /\ spiResult' = IF ok THEN spiResult ELSE "raised"
    /\ UNCHANGED <<cells, armed, job, erasePos, erased, off>>

(* open_spi: without a reply there is no session to close. *)
OpenSpi(did, ok) ==
    /\ spiPc = "open" /\ (ok => did)
    /\ armed' = (armed \/ did) /\ Missed("open", did /\ ~ok)
    /\ spiPc' = IF ok THEN "id" ELSE "release"
    /\ spiResult' = IF ok THEN spiResult ELSE "raised"
    /\ UNCHANGED <<cells, inReset, job, erasePos, erased, off>>

(* A plausible bug: a chip that does not answer is reported without a close. *)
FlashIdUnclosed(present) ==
    /\ spiPc = "id"
    /\ spiPc' = IF ~present THEN "release" ELSE IF job.erase THEN "erase" ELSE "write"
    /\ spiResult' = IF present THEN spiResult ELSE "raised"
    /\ UNCHANGED <<cells, armed, inReset, job, erasePos, erased, off, missed>>

(* flash_id: a chip that does not answer, or is too small, stops the job. *)
FlashId(present) ==
    /\ spiPc = "id"
    /\ spiPc' = IF ~present THEN "close" ELSE IF job.erase THEN "erase" ELSE "write"
    /\ spiResult' = IF present THEN spiResult ELSE "raised"
    /\ UNCHANGED <<cells, armed, inReset, job, erasePos, erased, off, missed>>

(* One step of flash_erase; the pod erases whole sectors and says which, and the   *)
(* next step starts behind both.                                                   *)
FlashErase(did, ok) ==
    LET stop == job.at + job.len
        asked == erasePos .. Least(erasePos + EraseStep, stop) - 1
        gone == Sectors(asked)
        end == 1 + CHOOSE c \in gone : \A d \in gone : d <= c
        next == Most(erasePos + Cardinality(asked), end)
    IN  /\ spiPc = "erase" /\ (ok => did)
        /\ cells' = IF did THEN [c \in Cells |-> IF c \in gone THEN "erased" ELSE cells[c]] ELSE cells
        /\ erased' = IF ok THEN erased \cup gone ELSE erased
        /\ erasePos' = IF ok THEN next ELSE erasePos
        /\ spiPc' = CASE ~ok -> "close" [] ok /\ next < stop -> "erase" [] OTHER -> "write"
        /\ spiResult' = IF ok THEN spiResult ELSE "raised"
        /\ UNCHANGED <<armed, inReset, job, off, missed>>

(* One chunk of flash_write: with verify the pod reads it back and refuses the     *)
(* first difference; a chunk may also go wrong in the chip.                        *)
FlashWrite(did, heard, faulty) ==
    LET part == job.at + off .. Least(job.at + off + SpiChunk, job.at + job.len) - 1
        after == [c \in Cells |->
                    IF c \notin part THEN cells[c]
                    ELSE IF cells[c] = "erased" /\ ~faulty THEN "image" ELSE "mixed"]
        good == \A c \in part : after[c] = "image"
        ok == heard /\ (job.verify => good)
        more == off + SpiChunk < job.len
    IN  /\ spiPc = "write" /\ (heard => did)
        /\ cells' = IF did THEN after ELSE cells
        /\ off' = IF ok /\ more THEN off + SpiChunk ELSE off
        /\ spiPc' = IF ok /\ more THEN "write" ELSE "close"
        /\ spiResult' = IF ~ok THEN "raised" ELSE IF more THEN spiResult ELSE "programmed"
        /\ UNCHANGED <<armed, inReset, job, erasePos, erased, missed>>

(* SpiSession.close marks itself closed before it asks, so it asks once. *)
CloseSpi(did, ok) ==
    /\ spiPc = "close" /\ (ok => did)
    /\ armed' = (armed /\ ~did) /\ Missed("close", ~ok)
    /\ spiPc' = "release"
    /\ spiResult' = IF ok THEN spiResult ELSE "raised"
    /\ UNCHANGED <<cells, inReset, job, erasePos, erased, off>>

ReleaseReset(did, ok) ==
    /\ spiPc = "release" /\ (ok => did)
    /\ IF job.hold THEN inReset' = (inReset /\ ~did) /\ Missed("release", ~ok)
       ELSE ok /\ UNCHANGED <<inReset, missed>>
    /\ spiPc' = "end"
    /\ spiResult' = IF ok THEN spiResult ELSE "raised"
    /\ UNCHANGED <<cells, armed, job, erasePos, erased, off>>

SpiNext ==
    /\ \/ \E did, ok \in BOOLEAN :
            \/ HoldReset(did, ok) \/ OpenSpi(did, ok) \/ FlashErase(did, ok)
            \/ CloseSpi(did, ok) \/ ReleaseReset(did, ok)
       \/ \E present \in BOOLEAN : FlashId(present)
       \/ \E did, heard, faulty \in BOOLEAN : FlashWrite(did, heard, faulty)
    /\ UNCHANGED before

SpiSpec == SpiInit /\ [][SpiNext]_spiVars

-----------------------------------------------------------------------------
SpiTypeOK ==
    /\ before \in {"old", "erased"} /\ cells \in [Cells -> {"old", "erased", "image", "mixed"}]
    /\ armed \in BOOLEAN /\ inReset \in BOOLEAN /\ job \in Jobs
    /\ spiPc \in {"call", "open", "id", "erase", "write", "close", "release", "end"}
    /\ erasePos \in 0 .. 2 * ChipSize /\ off \in 0 .. ChipSize /\ erased \subseteq Cells
    /\ spiResult \in {"running", "programmed", "raised"}
    /\ missed \subseteq {"hold", "open", "close", "release"}

(* A verified job that returns has its whole image in the chip: no piece is left   *)
(* out between two chunks or two erase steps, and none is written over cells that  *)
(* were not erased.                                                                *)
ImageInPlace == spiResult = "programmed" /\ job.verify => \A c \in Covered : cells[c] = "image"

(* What lies outside the sectors of the image keeps its contents, and without      *)
(* erase nothing outside the image changes.                                        *)
NeighboursKept ==
    /\ \A c \in Cells \ Sectors(Covered) : cells[c] = before
    /\ ~job.erase => \A c \in Cells \ Covered : cells[c] = before

(* flash_erase says which range it erased: those cells, and they are all it did.   *)
ErasedAsTold ==
    /\ spiPc = "write" /\ job.erase => erased = Sectors(Covered)
    /\ \A c \in erased : cells[c] # "old"

(* A job that ended leaves the SPI master armed only when the reply to the command  *)
(* that armed it was lost or the one that stops it failed, and the target in reset  *)
(* only when that holds of the commands for the reset line: a start that the pod    *)
(* refused, or a failure anywhere in the work, leaves neither.                      *)
NothingHeld ==
    spiPc = "end" => /\ armed => missed \cap {"open", "close"} # {}
                     /\ inReset => missed \cap {"hold", "release"} # {}

(* What the docstring of spi_flash says: the target "is released again afterwards,  *)
(* also on failure", so only a release that failed leaves it in reset.              *)
ReleasedAlsoOnFailure == spiPc = "end" /\ "release" \notin missed => ~inReset

SpiInv == SpiTypeOK /\ ImageInPlace /\ NeighboursKept /\ ErasedAsTold /\ NothingHeld
=============================================================================
