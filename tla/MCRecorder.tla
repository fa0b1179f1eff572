----------------------------- MODULE MCRecorder -----------------------------
\* Small instances of Recorder.
EXTENDS Recorder, TLC

RecorderSymmetry == Permutations(Recorders) \cup Permutations(Editors)
=============================================================================
