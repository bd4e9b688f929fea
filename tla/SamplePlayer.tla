---------------------------- MODULE SamplePlayer ----------------------------
(***************************************************************************)
(* The player of recordings every dispatcher of the page uses              *)
(* (core/audio.js): a voice for every sound that is playing, a cap on      *)
(* voices, and silence until a gesture has made an AudioContext, the       *)
(* context runs and the sample is decoded.  A synthesised sound needs no   *)
(* decoding.                                                               *)
(***************************************************************************)
EXTENDS Integers, Sequences, FiniteSets, SequencesExt

CONSTANTS Circuit,    \* synthesised sounds
          MaxVoices   \* DEFAULT_MAX_VOICES

VARIABLES ctx,         \* the AudioContext
          decoded,     \* are the recordings decoded
          muted,
          voices       \* insertion order

player == <<ctx, decoded, muted, voices>>

\* quiet (history): started while muted.  role: what the caller holds of the voice: its
\* handle ("held"), a timer that will stop it ("fading"), or nothing but its name.
Role == {"named", "held", "fading"}

Init == ctx = "none" /\ decoded = FALSE /\ muted = FALSE /\ voices = <<>>

-----------------------------------------------------------------------------
\* The registry when all voices but those at the places S are deleted: what is left, in
\* order of insertion.
only(vs, S) ==
  LET Rank(i) == Cardinality({j \in S : j <= i})
  IN  [k \in 1 .. Cardinality(S) |-> vs[CHOOSE i \in S : Rank(i) = k]]

Without(vs, i) == only(vs, DOMAIN vs \ {i})

\* Mutant: the oldest voice goes, loop or not.
MOldestEvictable(vs) == 1

\* The oldest one-shot, or the oldest of all if every voice loops.
oldestEvictable(vs) ==
  LET oneshots == {i \in DOMAIN vs : ~vs[i].loop}
  IN  IF oneshots = {} THEN 1 ELSE CHOOSE i \in oneshots : \A j \in oneshots : i <= j

\* VoiceRegistry.add.
Added(vs, voice) ==
  Append(IF Len(vs) >= MaxVoices THEN Without(vs, oldestEvictable(vs)) ELSE vs, voice)

Playable(name) == ctx = "running" /\ (decoded \/ name \in Circuit)

\* play: silent, and without a voice, unless the context runs and the sample is there.
PlayedAs(vs, name, loop, role) ==
  IF Playable(name)
  THEN Added(vs, [name |-> name, loop |-> loop, quiet |-> muted, role |-> role])
  ELSE vs
Played(vs, name, loop) == PlayedAs(vs, name, loop, "named")

Stopped(vs, name) == only(vs, {i \in DOMAIN vs : vs[i].name # name})

\* onended.
VoiceEnds ==
  /\ \E i \in DOMAIN voices : ~voices[i].loop /\ voices' = Without(voices, i)
  /\ UNCHANGED <<ctx, decoded, muted>>

\* A gesture makes the context; it resumes later, and the browser may suspend it.
Made == IF ctx = "none" THEN "suspended" ELSE ctx
Gesture == ctx' = Made /\ UNCHANGED <<decoded, muted, voices>>
Resumes == ctx = "suspended" /\ ctx' = "running" /\ UNCHANGED <<decoded, muted, voices>>
Suspends == ctx = "running" /\ ctx' = "suspended" /\ UNCHANGED <<decoded, muted, voices>>
DecodeEnds == ctx # "none" /\ decoded' = TRUE /\ UNCHANGED <<ctx, muted, voices>>

\* Mutant: muting leaves the voices alone.
MKept(vs) == vs

\* What a press of the mute button leaves playing.
kept(vs) == IF muted THEN vs ELSE <<>>

\* The part of audioToggleMute every dispatcher shares: a gesture, the switch, stopAll if
\* the sound is off now.
MuteSwitch == ctx' = Made /\ muted' = ~muted /\ UNCHANGED decoded

PlayerNext == VoiceEnds \/ Gesture \/ Resumes \/ Suspends \/ DecodeEnds

-----------------------------------------------------------------------------
Voices(name) == {i \in DOMAIN voices : voices[i].name = name}
Loops == {i \in DOMAIN voices : voices[i].loop}
HeardLoops == {i \in Loops : ~voices[i].quiet}
=============================================================================
