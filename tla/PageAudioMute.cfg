SPECIFICATION AudioSpec
CONSTANTS
  LoopTune = {board1, board2}
  PulseTune = {fanfare}
  Circuit = {walk}
  Held = {spring}
  Effect = {hop, splash}
  Bed = {bed1, bed2}
  Silence = Silence
  MaxFades = 2
  ufo = ufo
  shot = shot
  BitOrder <- MCBitOrder
  LoopBit = {ufo}
  None = None
  MaxVoices = 4
  Models <- LatchModel
INVARIANT ExactlyOneTune
