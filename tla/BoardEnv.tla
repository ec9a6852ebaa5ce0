------------------------------ MODULE BoardEnv ------------------------------
(***************************************************************************)
(* The environment of the boot loader in flash                             *)
(* (andestech/board/AndesTech/common/env.c): check_crc, board_env_copy,    *)
(* board_env_getchar and board_env_getaddr at start, board_env_save later, *)
(* over the driver of Flash, together with the flash commands of the user. *)
(*                                                                         *)
(* flash_sect_protect, flash_sect_erase and flash_write are the generic    *)
(* code of U-Boot: they pass on what the driver returns, where an error is *)
(* "less than 0 ==> error code" (flash.c:516, 554).                        *)
(*                                                                         *)
(* The CRC is abstracted by its purpose: the environments are those        *)
(* contents of the sector whose CRC is right, and what is left of one and  *)
(* what is added of another do not make up a third one.                    *)
(***************************************************************************)
EXTENDS Flash

CONSTANTS
  EnvSector,      \* CONFIG_ENV_ADDR, CONFIG_ENV_SIZE
  Envs, Default,  \* contents of the sector with the right CRC
  Requests        \* where the user writes to other sectors, and what

EnvBytes == BytesOf(EnvSector)
Contents == [EnvBytes -> Bit]
ASSUME EnvAssumption ==
  /\ EnvSector \in Sectors /\ Envs \subseteq Contents /\ Default \in Envs
  /\ \A q \in Requests : q.addr \in Bytes /\ q.src \in Seq(Bit) /\ Len(q.src) > 0
\* The CRC is the first word.  A byte being one bit, "the CRC fits no other
\* data" becomes: no byte of it is programmed in two of them.  No word of an
\* environment, text and zeroes, reads as erased.
CrcWord == start[EnvSector] .. start[EnvSector] + 3
ASSUME CrcAssumption ==
  /\ \A e, f \in Envs : e # f => \A b \in CrcWord : e[b] = 1 \/ f[b] = 1
  /\ \A e \in Envs, w \in EnvBytes : w % 4 = 0 => \E b \in w .. w + 3 : e[b] = 0

VARIABLES
  env,            \* the environment in memory
  loaded,         \* board_env_copy has been called (env_relocate)
  env_crc_valid,  \* bd->bi_ext.env_crc_valid
  epc,            \* where in board_env_save
  ret             \* what it returned last: "none", "ok" or "error"

envVars == <<env, loaded, env_crc_valid, epc, ret>>
vars    == <<flashVars, envVars>>

TypeOK ==
  /\ FlashTypeOK
  /\ env \in Contents
  /\ loaded \in BOOLEAN
  /\ env_crc_valid \in {-1, 0, 1}
  /\ epc \in {"idle", "erase", "erased", "written"}
  /\ ret \in {"none", "ok", "error"}

Init ==
  /\ FlashInit
  /\ env = Default /\ loaded = FALSE /\ env_crc_valid = 0
  /\ epc = "idle" /\ ret = "none"

InFlash == [b \in EnvBytes |-> cell[b]]

-----------------------------------------------------------------------------
(* At start                                                                *)

\* takes any environment that was there once
Mut_check_crc == env_crc_valid' = 1

check_crc ==
  env_crc_valid' = IF env_crc_valid # 0 THEN env_crc_valid
                   ELSE IF InFlash \in Envs THEN 1 ELSE -1

(* board_env_getchar and board_env_getaddr, "called before the environment *)
(* is copied to ram" *)
EnvGet ==
  /\ fpc = "idle" /\ ~loaded
  /\ check_crc
  /\ UNCHANGED <<flashVars, env, loaded, epc, ret>>

(* board_env_copy; its caller takes the default when it fails *)
EnvCopy ==
  /\ fpc = "idle" /\ ~loaded
  /\ check_crc
  /\ env' = IF env_crc_valid' > 0 THEN InFlash ELSE Default
  /\ loaded' = TRUE
  /\ UNCHANGED <<flashVars, epc, ret>>

-----------------------------------------------------------------------------
(* board_env_save                                                          *)

Idle == fpc = "idle" /\ epc = "idle" /\ loaded

SetProtect(p) == protect' = [protect EXCEPT ![EnvSector] = p]
KeepFlash == UNCHANGED <<chipVars, intr, fpc, eraseVars, writeVars, rc, watchVars>>

(* flash_sect_protect(0, ...); its failure is the return value *)
SaveUnprotect ==
  /\ Idle
  /\ \/ SetProtect(FALSE) /\ epc' = "erase" /\ UNCHANGED ret
     \/ ret' = "error" /\ UNCHANGED <<protect, epc>>
  /\ KeepFlash
  /\ UNCHANGED <<env, loaded, env_crc_valid>>

SaveErase ==
  /\ epc = "erase"
  /\ flash_erase(EnvSector, EnvSector)
  /\ epc' = "erased"
  /\ UNCHANGED <<env, loaded, env_crc_valid, ret>>

(* flash_sect_erase failed: protect again *)
SaveEraseFailed ==
  /\ epc = "erased" /\ fpc = "idle" /\ rc # "ok"
  /\ SetProtect(TRUE)
  /\ ret' = "error" /\ epc' = "idle"
  /\ KeepFlash
  /\ UNCHANGED <<env, loaded, env_crc_valid>>

(* flash_write, which passes a sector that is not protected on *)
SaveWrite ==
  /\ epc = "erased" /\ fpc = "idle" /\ rc = "ok"
  /\ write_buff(start[EnvSector],
       [k \in 1 .. start[EnvSector + 1] - start[EnvSector] |-> env[start[EnvSector] + k - 1]])
  /\ epc' = "written"
  /\ UNCHANGED <<env, loaded, env_crc_valid, ret>>

(* whatever flash_write said: protect, return 0 *)
SaveReturn ==
  /\ epc = "written" /\ fpc = "idle"
  /\ SetProtect(TRUE)
  /\ ret' = "ok" /\ epc' = "idle"
  /\ KeepFlash
  /\ UNCHANGED <<env, loaded, env_crc_valid>>

-----------------------------------------------------------------------------
(* The user (external): setenv, erase, cp.b; the power                     *)

SetEnv(e) ==
  /\ Idle /\ env' = e
  /\ UNCHANGED <<flashVars, loaded, env_crc_valid, epc, ret>>

CommandErase(first, last) ==
  /\ Idle /\ flash_erase(first, last)
  /\ UNCHANGED envVars

\* flash_write does not go into a protected sector
CommandWrite(addr, s) ==
  /\ Idle /\ addr + Len(s) <= start[EnvSector]
  /\ \A t \in Sectors : protect[t] => BytesOf(t) \cap (addr .. addr + Len(s) - 1) = {}
  /\ write_buff(addr, s)
  /\ UNCHANGED envVars

PowerOff ==
  /\ PowerCut
  /\ env' = Default /\ loaded' = FALSE /\ env_crc_valid' = 0
  /\ epc' = "idle" /\ ret' = "none"

SaveStep == SaveErase \/ SaveEraseFailed \/ SaveWrite \/ SaveReturn

Next ==
  \/ EnvGet \/ EnvCopy
  \/ SaveUnprotect \/ SaveStep
  \/ (\E e \in Envs : SetEnv(e))
  \/ (\E first, last \in Sectors : CommandErase(first, last))
  \/ (\E q \in Requests : CommandWrite(q.addr, q.src))
  \/ (CallStep \/ ChipStep) /\ UNCHANGED envVars
  \/ PowerOff

Spec == Init /\ [][Next]_vars

-----------------------------------------------------------------------------
(* Properties                                                              *)

\* Lines 47-49: "returns -1 on error, 0 if ok": when board_env_save returns
\* 0, what is in the flash is what was to be saved.
SavedMeansStored ==
  [][epc = "written" /\ ret' = "ok" /\ epc' = "idle" => InFlash = env]_vars

\* What the store of environments holds and the program knows
NoEnv  == [b \in EnvBytes |-> 2]
Stored == IF InFlash \in Envs THEN InFlash ELSE NoEnv
Memory == IF loaded THEN env ELSE NoEnv
Store  == INSTANCE EnvStore WITH None <- NoEnv, stored <- Stored, memory <- Memory

\* Lines 34-44, 77 and 88: erase and write in pieces, broken off, failing or
\* cut by the power, leave an environment that was in memory, or none.
ImplementsStore == Store!StoreSpec
=============================================================================
