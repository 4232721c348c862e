---------------------------- MODULE MhiPmStates ----------------------------
(***************************************************************************)
(* The vocabulary of the power-management layer: host PM states and the    *)
(* table of transitions the host allows itself (core/pm.c), the masks that *)
(* say what may be done in which PM state (core/internal.h), the MHI       *)
(* states and the execution environments the device reports.               *)
(***************************************************************************)

PmState == {"DISABLE", "POR", "M0", "M2", "M3_ENTER", "M3", "M3_EXIT",
            "FW_DL_ERR", "SYS_ERR_DETECT", "SYS_ERR_PROCESS",
            "SHUTDOWN_PROCESS", "LD_ERR_FATAL_DETECT"}

\* enum mhi_state, as far as this host and its device use it
MhiState == {"RESET", "READY", "M0", "M1", "M2", "M3", "SYS_ERR"}

\* enum mhi_ee_type; MAX and DISABLE_TRANSITION never come from the device
DeviceEE == {"PBL", "SBL", "AMSS", "RDDM", "WFW", "PTHRU", "EDL", "FP"}
EE == DeviceEE \cup {"DISABLE_TRANSITION", "MAX"}

\* enum dev_st_transition: the work items of the state worker
StTransition == {"PBL", "READY", "SBL", "MISSION_MODE", "FP", "SYS_ERR", "DISABLE"}

-----------------------------------------------------------------------------
AnyError == {"SYS_ERR_DETECT", "SHUTDOWN_PROCESS", "LD_ERR_FATAL_DETECT"}

dev_state_transitions ==
  [s \in PmState |->
     CASE s = "DISABLE"             -> {"POR"}
       [] s = "POR"                 -> AnyError \cup {"POR", "DISABLE", "M0", "FW_DL_ERR"}
       [] s = "M0"                  -> AnyError \cup {"M0", "M2", "M3_ENTER", "FW_DL_ERR"}
       [] s = "M2"                  -> AnyError \cup {"M0"}
       [] s = "M3_ENTER"            -> AnyError \cup {"M3"}
       [] s = "M3"                  -> AnyError \cup {"M3_EXIT"}
       [] s = "M3_EXIT"             -> AnyError \cup {"M0"}
       [] s = "FW_DL_ERR"           -> AnyError \cup {"FW_DL_ERR"}
       [] s = "SYS_ERR_DETECT"      -> {"SYS_ERR_PROCESS", "SHUTDOWN_PROCESS",
                                        "LD_ERR_FATAL_DETECT"}
       [] s = "SYS_ERR_PROCESS"     -> {"POR", "SHUTDOWN_PROCESS", "LD_ERR_FATAL_DETECT"}
       [] s = "SHUTDOWN_PROCESS"    -> {"DISABLE", "LD_ERR_FATAL_DETECT"}
       [] s = "LD_ERR_FATAL_DETECT" -> {"LD_ERR_FATAL_DETECT", "SHUTDOWN_PROCESS"}]

\* mutant: the table is not asked
mhi_tryset_pm_state_any(cur, state) == state

(***************************************************************************)
(* mhi_tryset_pm_state(): the value it returns is the state it leaves      *)
(* behind, whether or not the move was allowed.  A caller that compares it *)
(* with the requested state therefore also takes "refused, but already     *)
(* there" for success.                                                     *)
(***************************************************************************)
mhi_tryset_pm_state(cur, state) ==
  IF state \in dev_state_transitions[cur] THEN state ELSE cur

-----------------------------------------------------------------------------
MHI_REG_ACCESS_VALID(pm)   == pm \notin {"DISABLE", "M3", "LD_ERR_FATAL_DETECT"}
MHI_PM_IN_ERROR_STATE(pm)  == pm \in {"FW_DL_ERR", "SYS_ERR_DETECT", "SYS_ERR_PROCESS",
                                      "SHUTDOWN_PROCESS", "LD_ERR_FATAL_DETECT"}
MHI_PM_IN_FATAL_STATE(pm)  == pm = "LD_ERR_FATAL_DETECT"
MHI_EVENT_ACCESS_INVALID(pm) == pm = "DISABLE" \/ MHI_PM_IN_ERROR_STATE(pm)
MHI_WAKE_DB_CLEAR_VALID(pm) == pm \in {"M0", "M2", "M3_EXIT"}
MHI_WAKE_DB_SET_VALID(pm)   == pm = "M2"
\* mutant: M2 is left out
MHI_WAKE_DB_FORCE_SET_VALID_m0(pm) == pm \in {"M0", "M3_EXIT"}
MHI_WAKE_DB_FORCE_SET_VALID(pm) == MHI_WAKE_DB_CLEAR_VALID(pm)

MHI_IN_PBL(ee)          == ee \in {"PBL", "PTHRU", "EDL"}
MHI_IN_MISSION_MODE(ee) == ee \in {"AMSS", "WFW"}
=============================================================================
