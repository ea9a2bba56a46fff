------------------------------ MODULE MCServices ------------------------------
(***************************************************************************)
(* The agents that keep the tokens of other tools, for TLC.  They share no *)
(* state with each other: every behaviour is about one of them, the scene, *)
(* and leaves the state of the others alone.                               *)
(***************************************************************************)
EXTENDS GeminiAuth, CursorAuth, CodexAuth

VARIABLE scene

servicesVars == <<scene, geminiVars, cursorVars, codexVars>>

\* Where a part may begin in several ways, the other scenes take one of them.
ServicesInit ==
    /\ scene \in {"gemini", "cursor", "codex"}
    /\ GeminiInit
    /\ scene # "gemini" => genv = NoToken
    /\ CursorInit
    /\ scene # "cursor" => csqlite = ckeyring
    /\ CodexInit
    /\ scene # "codex" => role = "default" /\ stores.opencode = NoFile

Scene(name) == scene = name /\ UNCHANGED scene

GeminiPolls == Scene("gemini") /\ GeminiPoll /\ UNCHANGED <<cursorVars, codexVars>>
CursorPolls == Scene("cursor") /\ CursorPoll /\ UNCHANGED <<geminiVars, codexVars>>
CodexPolls == Scene("codex") /\ CodexSteps /\ UNCHANGED <<geminiVars, cursorVars>>

ServicesNext ==
    \/ GeminiPolls
    \/ Scene("gemini") /\ GeminiOutside /\ UNCHANGED <<cursorVars, codexVars>>
    \/ CursorPolls
    \/ Scene("cursor") /\ CursorOutside /\ UNCHANGED <<geminiVars, codexVars>>
    \/ CodexPolls
    \/ Scene("codex") /\ CodexOutside /\ UNCHANGED <<geminiVars, cursorVars>>

ServicesSpec ==
    /\ ServicesInit
    /\ [][ServicesNext]_servicesVars
    /\ WF_servicesVars(GeminiPolls)
    /\ WF_servicesVars(CursorPolls)
    /\ WF_servicesVars(CodexPolls)
=============================================================================
