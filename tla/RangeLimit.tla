----------------------------- MODULE RangeLimit -----------------------------
(***************************************************************************)
(* The range limit and the "close on show" box of the search dialog on     *)
(* their way between the dialog, the plugin and the configuration of       *)
(* OpenCPN.  SetRangeLimit converts from the unit the user has chosen in   *)
(* OpenCPN to whole nautical miles; nothing converts back.                 *)
(***************************************************************************)
EXTENDS Integers

CONSTANTS
  Units,   \* distance units OpenCPN offers, as [miles, per]: per of them
           \* make miles nautical miles
  Entries, \* what the user may leave in the two controls, as [limit, close]
  MaxLimit \* the upper end of the spin control

ASSUME RangeAssumption ==
  /\ Units \subseteq [miles : Nat \ {0}, per : Nat \ {0}]
  /\ MaxLimit \in Nat
  /\ Entries \subseteq [limit : 0 .. MaxLimit, close : BOOLEAN]

VARIABLES
  unit,           \* the user's unit in OpenCPN, the same all the time
  running,        \* Init was called and DeInit was not
  m_scRange,      \* the spin control of the dialog
  m_cAutoClose,   \* the check box of the dialog
  m_iLimitRange,  \* member of objsearch_pi
  m_bCloseOnShow, \* member of objsearch_pi
  config,         \* what the configuration file holds
  left            \* what the dialog showed at the last DeInit

controlVars == <<m_scRange, m_cAutoClose>>
memberVars == <<m_iLimitRange, m_bCloseOnShow>>
rangeVars == <<unit, running, controlVars, memberVars, config, left>>

(* floor(fromUsrDistance_Plugin(val) + 0.5) *)
RangeLimit(val) == (2 * val * unit.miles + unit.per) \div (2 * unit.per)

Shown == [limit |-> m_scRange, close |-> m_cAutoClose]

(* The spin control takes nothing above its upper end. *)
Capped(limit) == IF limit > MaxLimit THEN MaxLimit ELSE limit

RangeInit ==
  /\ unit \in Units
  /\ running = FALSE
  /\ m_scRange = 0
  /\ m_cAutoClose = TRUE
  /\ m_iLimitRange = 0
  /\ m_bCloseOnShow = TRUE
  /\ config = [limit |-> 0, close |-> TRUE]
  /\ left = config

-----------------------------------------------------------------------------
(* LoadConfig, then the constructor of the dialog *)
LoadSettings ==
  /\ ~ running
  /\ running' = TRUE
  /\ m_iLimitRange' = config.limit
  /\ m_bCloseOnShow' = config.close
  /\ m_scRange' = Capped(config.limit)
  /\ m_cAutoClose' = config.close
  /\ UNCHANGED <<unit, config, left>>

(* The user enters a range or clicks "Close on show". *)
EnterSettings(entry) ==
  /\ running
  /\ m_scRange' = entry.limit
  /\ m_cAutoClose' = entry.close
  /\ UNCHANGED <<unit, running, memberVars, config, left>>

(* SetAutoClose and SetRangeLimit, from OnSearch and from SaveSettings *)
SaveSettings ==
  /\ running
  /\ m_iLimitRange' = RangeLimit(m_scRange)
  /\ m_bCloseOnShow' = m_cAutoClose

SavesWhatWas == config' = [limit |-> m_iLimitRange, close |-> m_bCloseOnShow]
SaveConfig == config' = [limit |-> m_iLimitRange', close |-> m_bCloseOnShow']

(* DeInit: deleting the dialog saves its settings, then SaveConfig. *)
SaveAtDeInit ==
  /\ SaveSettings
  /\ SaveConfig
  /\ running' = FALSE
  /\ left' = Shown
  /\ UNCHANGED <<unit, controlVars>>

(* The process dies: the configuration keeps what the last DeInit wrote.   *)
LoseSettings ==
  /\ running
  /\ running' = FALSE
  /\ UNCHANGED <<unit, controlVars, memberVars, config, left>>
=============================================================================
