---------------------------- MODULE EnvExpansion ----------------------------
(***************************************************************************)
(* config/config.go: expandEnvVars, which Load applies to a whole file. A  *)
(* text is a sequence of plain pieces, references to variables, and        *)
(* references with a default, whose default is plain.                      *)
(***************************************************************************)
EXTENDS Integers, Sequences, FiniteSets

LOCAL INSTANCE SequencesExt

CONSTANTS Names,     \* of environment variables
          Values,    \* the texts that a variable may have; <<>> also if it is unset
          Files,     \* the texts that are loaded
          MaxLength  \* bound: how long a text may grow

ASSUME LengthAssumption == MaxLength \in Nat

Plain      == [kind |-> "plain", of |-> "text"]
Default    == [kind |-> "plain", of |-> "default"]
Ref(v)     == [kind |-> "ref", of |-> v]
Else(v)    == [kind |-> "else", of |-> v]

VARIABLES env,    \* the environment
          file,   \* what was read
          stage,  \* how far the expansion is
          prev,   \* the variables prev and
          text    \* result of expandEnvVars

envVars == <<env, file, stage, prev, text>>

EnvInit == /\ env \in [Names -> Values]
           /\ file = <<>>
           /\ stage = "idle"
           /\ prev = <<>>
           /\ text = <<>>

\* os.Expand, with Getenv: a name that contains a default names no variable.
Getenv(piece) == CASE piece.kind = "plain" -> <<piece>>
                   [] piece.kind = "ref"   -> env[piece.of]
                   [] piece.kind = "else"  -> <<>>

\* The mapping of the first pass knows defaults, for variables that are unset
\* or empty.
GetenvOrDefault(piece) ==
    IF piece.kind # "else" THEN Getenv(piece)
    ELSE IF env[piece.of] # <<>> THEN env[piece.of] ELSE <<Default>>

Expand(s)             == FlattenSeq([i \in DOMAIN s |-> Getenv(s[i])])
ExpandWithDefaults(s) == FlattenSeq([i \in DOMAIN s |-> GetenvOrDefault(s[i])])

\* Load reads a file; the first pass.
ReadFile(f) ==
    /\ stage = "idle"
    /\ stage' = "expanding"
    /\ file' = f
    /\ prev' = <<>>
    /\ text' = ExpandWithDefaults(f)
    /\ UNCHANGED env

\* Faulty variant: nested references are expanded once.
ExpandOnce ==
    /\ stage = "expanding" /\ prev = <<>> /\ prev # text
    /\ prev' = text
    /\ text' = Expand(text)
    /\ stage' = "expanded"
    /\ UNCHANGED <<env, file>>

\* The loop runs while the last pass has changed something.
ExpandAgain ==
    /\ stage = "expanding" /\ prev # text
    /\ Len(text) <= MaxLength
    /\ prev' = text
    /\ text' = Expand(text)
    /\ UNCHANGED <<env, file, stage>>

Stop == /\ stage = "expanding" /\ prev = text
        /\ stage' = "expanded"
        /\ UNCHANGED <<env, file, prev, text>>

EnvNext == (\E f \in Files : ReadFile(f)) \/ ExpandAgain \/ Stop

EnvSpec == EnvInit /\ [][EnvNext]_envVars

\* The function runs on.
EnvFairness == WF_envVars(ExpandAgain \/ Stop)

-----------------------------------------------------------------------------

\* No variable refers to itself, directly or through others.
Acyclic == \E rank \in [Names -> 1..Cardinality(Names)] :
              \A v \in Names : \A i \in DOMAIN env[v] :
                 env[v][i].kind = "ref" => rank[env[v][i].of] < rank[v]

\* The full meaning of a text, depth first.
RECURSIVE Meaning(_)
Meaning(s) == IF s = <<>> THEN <<>>
              ELSE (IF Head(s).kind = "ref" THEN Meaning(env[Head(s).of])
                    ELSE Getenv(Head(s))) \o Meaning(Tail(s))

\* Without variables that refer to themselves the loop ends (with them it may
\* run for ever), and what Load decodes is the file with every reference
\* replaced by what it finally means: defaults count in the file itself, and
\* are lost in the values of variables.
AcyclicExpanded ==
    stage = "expanding" /\ Acyclic ~>
        stage = "expanded" /\ Acyclic /\ text = Meaning(ExpandWithDefaults(file))
=============================================================================
