SPECIFICATION Spec
CONSTANTS
  Workers = {w1, w2}
  Msgs = {t1, t2}
  MaxRetries = 1
  NoMsg = NoMsg
  Mails = {buy, ask, spam}
  Trusted = {buy, ask}
  Trades = {buy}
  Questions = {ask}
INVARIANTS
  SeenTradesAreRecorded
