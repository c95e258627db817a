CONSTANTS
  t1 = t1
  t2 = t2
  s1 = s1
  s2 = s2
  h1 = h1
  h2 = h2
  Nada = nada
  HiloEnergia = hEnergia
  HiloArranque = hArranque
  Silla = {t1, t2}
  Sesion = {s1, s2}
  ConRetorno = {s1}
  Hilos = {h1, h2}
  Entradas = {"emergencia", "manual", "cancelar"}
  MaxPagos = 1
  MaxCortes = 1
  MaxReinicios = 0
  BaseRapida = TRUE
SPECIFICATION Spec
SYMMETRY SimetriaHilos
INVARIANTS IInv
CHECK_DEADLOCK FALSE
