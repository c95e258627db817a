CONSTANTS
  t1 = t1
  t2 = t2
  s1 = s1
  s2 = s2
  h1 = h1
  h2 = h2
  v1 = v1
  Nada = nada
  Arr = arr
  Turno = {t1, t2}
  Silla = {s1, s2}
  Vale = {}
  Hilos = {h1, h2}
  Tardias = FALSE
  MaxReinicios = 1
  MaxFallas = 1
SPECIFICATION Spec
SYMMETRY Simetria
INVARIANTS TurnoConDespertador EnUsoConSesion
CHECK_DEADLOCK FALSE
