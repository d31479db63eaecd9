-------------------------- MODULE MCWeatherHandler --------------------------
(***************************************************************************)
(* Small instances of WeatherHandler for TLC.                              *)
(***************************************************************************)
EXTENDS WeatherHandler, TLC

CONSTANTS s1, s2, s3, s4

\* Two hourly sets, a weekly one, and one whose mode is neither.
AllModes == (s1 :> "hourly" @@ s2 :> "hourly" @@ s3 :> "weekly" @@ s4 :> "unknown")

\* Sets of different lengths.
Lengths == (s1 :> 2 @@ s2 :> 1 @@ s3 :> 2 @@ s4 :> 1)
=============================================================================
