CONSTANTS
  Accounts <- MCAccounts
  Faucet = "F"
  Codes <- MCCodes
  Cost <- MCCost
  Fails <- MCFails
  Queue <- MCQueue
  MinimumRewardWithdraw = 1
  RoundIndex = 1
  Catalogue <- MCCatalogue
  InitBalance <- MCInitBalance
  InitReward <- MCInitReward
  MaxSupply = 6
SPECIFICATION Spec

PROPERTY GasAccounting
