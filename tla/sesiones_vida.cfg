CONSTANTS
  t1 = t1
  t2 = t2
  s1 = s1
  s2 = s2
  h1 = h1
  h2 = h2
  Nada = nada
  HiloEnergia = hEnergia
  HiloArranque = hArranque
  Silla = {t1}
  Sesion = {s1}
  ConRetorno = {s1}
  Hilos = {h1, h2}
  Entradas = {"energia", "reinicio"}
  MaxPagos = 1
  MaxCortes = 1
  MaxReinicios = 1
  BaseRapida = TRUE
SPECIFICATION SpecJusta
PROPERTIES SesionTermina
CHECK_DEADLOCK FALSE
