CONSTANTS
  p1 = p1
  p2 = p2
  s1 = s1
  t1 = t1
  h1 = h1
  h2 = h2
  Nada = nada
  Desconocida = desconocida
  SinReferencia = sinReferencia
  Sesion = {s1}
  Turno = {t1}
  Hilos = {h1, h2}
  Pago = {p1, p2}
  Referencias <- LasDosDeLoMismo
  MaxReinicios = 1
SPECIFICATION Spec
SYMMETRY Simetria
INVARIANTS TypeOK SeAplicaUnaVez AprobadoSirveOSeRevisa DadoEstaPago UnValePorRevision
PROPERTIES RevisionPersiste ImplementaCobros
CHECK_DEADLOCK FALSE
