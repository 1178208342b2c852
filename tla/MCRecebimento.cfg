CONSTANTS
  Receb <- MCRecebMesmoId
  ChamadorRec = {worker}
  MaxVersao = 1
SPECIFICATION SpecRecebimento
INVARIANTS
  EntradaConfirmada
CHECK_DEADLOCK FALSE
