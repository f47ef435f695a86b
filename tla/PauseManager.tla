---------------------------- MODULE PauseManager ----------------------------
(***************************************************************************)
(* The pause manager (contracts/pause_manager/src/lib.rs): an operator     *)
(* pauses categories of operations; the other contracts ask is_paused,     *)
(* which does not tell the categories apart.                               *)
(***************************************************************************)
EXTENDS Integers, Storage

CONSTANTS
    Account,        \* accounts that can hold a role
    FirstOperator,  \* the operator initialize names
    OperatorInput,  \* accounts propose_operator_rotation may name
    CategoryInput   \* categories passed to pause_category and unpause_category

PauseCategory == {"Payroll", "Treasury", "Audit", "Admin"}

ASSUME PauseAssumption ==
    /\ FirstOperator \in Account
    /\ OperatorInput \subseteq Account
    /\ CategoryInput \subseteq PauseCategory
    /\ None \notin Account

VARIABLES
    paused,          \* the categories whose flag is set
    pauseOperator,
    pendingOperator

pauseVars == <<paused, pauseOperator, pendingOperator>>

PauseTypeOK ==
    /\ paused \subseteq PauseCategory
    /\ pauseOperator \in Account
    /\ pendingOperator \in Account \cup {None}

IsPaused == \E c \in PauseCategory : c \in paused

PauseAll ==
    /\ paused' = PauseCategory
    /\ UNCHANGED <<pauseOperator, pendingOperator>>

UnpauseAll ==
    /\ paused' = {}
    /\ UNCHANGED <<pauseOperator, pendingOperator>>

SetCategory(c) ==
    /\ paused' = paused \cup {c}
    /\ UNCHANGED <<pauseOperator, pendingOperator>>

ClearCategory(c) ==
    /\ paused' = paused \ {c}
    /\ UNCHANGED <<pauseOperator, pendingOperator>>

ProposeOperatorRotation(a) ==
    /\ pendingOperator = None
    /\ pendingOperator' = a
    /\ UNCHANGED <<paused, pauseOperator>>

AcceptOperatorRotation ==
    /\ pendingOperator # None
    /\ pauseOperator' = pendingOperator
    /\ pendingOperator' = None
    /\ paused' = paused

CancelOperatorRotation ==
    /\ pendingOperator # None
    /\ pendingOperator' = None
    /\ UNCHANGED <<paused, pauseOperator>>

PauseInit ==
    /\ paused = {}
    /\ pauseOperator = FirstOperator
    /\ pendingOperator = None

PauseNext ==
    \/ PauseAll
    \/ UnpauseAll
    \/ \E c \in CategoryInput : SetCategory(c)
    \/ \E c \in CategoryInput : ClearCategory(c)
    \/ \E a \in OperatorInput : ProposeOperatorRotation(a)
    \/ AcceptOperatorRotation
    \/ CancelOperatorRotation
=============================================================================
